---- MODULE Spec2Model ----
(***************************************************************************)
(* Model of the ARCH runc interception shim: the command parser, the       *)
(* lifecycle engine (RuncHandler), the per-container flag store            *)
(* (ContainerFlagManager) and the event listener's writer                  *)
(* (ContainerStateManager.set_exit_code) acting on the same record file.   *)
(* Flag-store accesses are modelled at the granularity of the file-system  *)
(* calls the code makes (exists, open, flock, read, flush at close,        *)
(* remove) so that interleavings of the shim and the listener are          *)
(* behaviours of the model.                                                *)
(***************************************************************************)
EXTENDS Integers, Sequences, FiniteSets, TLC

\* ------------------------------------------------------------------------
\* Bounds of the model
\* ------------------------------------------------------------------------

\* runc invocations containerd makes in a behaviour
MaxInvocations == 2

\* characters in a namespace or a container id whose spelling matters
MaxNameLen == 3

\* tokens after the program name in an argv given to the parser on its own
MaxArgs == 4

\* entries of process.env in a config given to get_checkpoint_path on its own
MaxEnv == 3

\* lines of a dump.log given to validate_checkpoint on its own
MaxLines == 3

\* lines of the KEY=VALUE config file read by _get_real_runc_cmd
MaxConfLines == 2

\* subcommand options of an argv given to the command builders on their own
MaxOpts == 2

\* record files in the state directory at a time, where file names are spelled out
MaxRecords == 2

\* /tasks/exit events the listener receives in a behaviour
MaxEvents == 1

\* lines in the output of mount
MaxMounts == 2

\* ------------------------------------------------------------------------
\* Program constants
\* ------------------------------------------------------------------------

\* mutant: "state" is added to the intercepted subcommands
INTERCEPTABLE_COMMANDS_with_state ==
    {"create", "start", "delete", "checkpoint", "resume", "state"}

INTERCEPTABLE_COMMANDS == {"create", "start", "delete", "checkpoint", "resume"}

RUNC_SUBCMD_BOOLEAN_FLAGS ==
    {"--leave-running", "--tcp-established", "--ext-unix-sk", "--shell-job",
     "--lazy-pages", "--file-locks", "--pre-dump", "--auto-dedup",
     "--no-pivot", "--no-new-keyring", "--force",
     "--debug", "--systemd-cgroup", "--help", "-h", "--version", "-v",
     "--detach", "--rootless",
     "--manage-cgroups-mode", "--empty-ns", "--status-fd", "--page-server"}

STATE_VERSION == "1.0"

\* the directory of the flag files (ContainerFlagManager)
STATE_PATH == "/var/tmp/arch/state"

\* the directory of ContainerStateManager, the listener's store: the exit
\* code is kept in the container's flag record, so it is the same directory
STATE_DIR == STATE_PATH

\* the path of the real runtime binary resolved by _get_real_runc_cmd
original_runc_cmd == "/usr/bin/runc.real"

\* exit_code = None in a record
None == -1

\* ------------------------------------------------------------------------
\* Tokens and argv inputs
\* ------------------------------------------------------------------------

\* tokens of the input universe for which str.startswith("-") holds
DashTokens ==
    RUNC_SUBCMD_BOOLEAN_FLAGS \cup {"--root", "--bundle", "--image-path", "--work-path"}

StartsWithDash(tok) == tok \in DashTokens

\* The spelling of the --root values of the input universe: the "/"
\* characters and the pieces between them; any other token has no "/"
Spelling(path) ==
    CASE path = "/run/runc/default" -> <<"/", "run", "/", "runc", "/", "default">>
      [] path = "/run/runc/default/" -> <<"/", "run", "/", "runc", "/", "default", "/">>
      [] path = "/run/runc/k8s" -> <<"/", "run", "/", "runc", "/", "k8s">>
      [] path = "/run/runc/k8s/" -> <<"/", "run", "/", "runc", "/", "k8s", "/">>
      [] path = "/" -> <<"/">>
      [] path = "" -> <<>>
      [] OTHER -> <<path>>

\* str.split(sep) on a spelling: cur is the part collected since the last sep
RECURSIVE SplitAt(_, _, _)
SplitAt(pieces, sep, cur) ==
    IF pieces = <<>> THEN <<cur>>
    ELSE IF Head(pieces) = sep THEN <<cur>> \o SplitAt(Tail(pieces), sep, "")
    ELSE SplitAt(Tail(pieces), sep, cur \o Head(pieces))

\* root_path.split('/')
SplitSlash(path) == SplitAt(Spelling(path), "/", "")

\* str.endswith('/') expressed on the split: the last piece is empty and the
\* string is not empty
EndsWithSlash(path) ==
    LET parts == SplitSlash(path)
    IN  path # "" /\ parts[Len(parts)] = ""

ArgvSet ==
    { <<"runc", "create", "--bundle", "/b", "tc">>,
      <<"runc", "--root", "/run/runc/default", "start", "tc">>,
      <<"runc", "checkpoint", "--image-path", "/ckpt", "--leave-running", "tc">>,
      <<"runc", "resume", "tc">>,
      <<"runc", "delete", "--force", "tc">>,
      <<"runc", "--root", "/run/runc/default/", "state", "tc">>,
      <<"runc", "--version">> }

\* ------------------------------------------------------------------------
\* Command parser (RuncCommandParser.parse_command)
\* ------------------------------------------------------------------------

\* Python dict assignment d[k] = v on an insertion-ordered dict, kept as a
\* sequence of <<key, value>> pairs
DictSet(d, key, v) ==
    IF \E j \in 1..Len(d) : d[j][1] = key
    THEN [j \in 1..Len(d) |-> IF d[j][1] = key THEN <<key, v>> ELSE d[j]]
    ELSE Append(d, <<key, v>>)

DictHas(d, key) == \E j \in 1..Len(d) : d[j][1] = key

DictGet(d, key) == d[CHOOSE j \in 1..Len(d) : d[j][1] = key][2]

\* The global-option loop: i is the 1-based index of the next token.
\* Returns <<options, index of the first token not consumed>>.
RECURSIVE ScanGlobal(_, _, _)
ScanGlobal(args, i, opts) ==
    IF i <= Len(args) /\ StartsWithDash(args[i])
    THEN IF args[i] \in RUNC_SUBCMD_BOOLEAN_FLAGS
         THEN ScanGlobal(args, i + 1, DictSet(opts, args[i], ""))
         ELSE IF i + 1 <= Len(args) /\ ~StartsWithDash(args[i + 1])
              THEN ScanGlobal(args, i + 2, DictSet(opts, args[i], args[i + 1]))
              ELSE ScanGlobal(args, i + 1, DictSet(opts, args[i], ""))
    ELSE <<opts, i>>

\* The subcommand-option loop: runs to the end of argv, skipping non-options
RECURSIVE ScanSub(_, _, _)
ScanSub(args, i, opts) ==
    IF i <= Len(args)
    THEN IF StartsWithDash(args[i])
         THEN IF args[i] \in RUNC_SUBCMD_BOOLEAN_FLAGS
              THEN ScanSub(args, i + 1, DictSet(opts, args[i], ""))
              ELSE IF i + 1 <= Len(args) /\ ~StartsWithDash(args[i + 1])
                   THEN ScanSub(args, i + 2, DictSet(opts, args[i], args[i + 1]))
                   ELSE ScanSub(args, i + 1, DictSet(opts, args[i], ""))
         ELSE ScanSub(args, i + 1, opts)
    ELSE opts

\* mutant: the trailing slash is not looked at
Namespace_any_ending(global_options) ==
    IF DictHas(global_options, "--root")
    THEN LET root_path == DictGet(global_options, "--root")
             parts == SplitSlash(root_path)
         IN  IF root_path # ""
             THEN parts[Len(parts)]
             ELSE "default"
    ELSE "default"

Namespace(global_options) ==
    IF DictHas(global_options, "--root")
    THEN LET root_path == DictGet(global_options, "--root")
             parts == SplitSlash(root_path)
         IN  IF root_path # "" /\ ~EndsWithSlash(root_path)
             THEN parts[Len(parts)]
             ELSE "default"
    ELSE "default"

\* parse_command for a non-empty argv (args[1] is the program path)
parse_command(args) ==
    LET g == ScanGlobal(args, 2, <<>>)
        i == g[2]
    IN  IF i > Len(args)
        THEN [subcommand |-> "", global_options |-> g[1],
              subcommand_options |-> <<>>, container_id |-> "",
              namespace |-> "default"]
        ELSE [subcommand |-> args[i],
              global_options |-> g[1],
              subcommand_options |-> ScanSub(args, i + 1, <<>>),
              container_id |-> IF ~StartsWithDash(args[Len(args)])
                               THEN args[Len(args)] ELSE "",
              namespace |-> Namespace(g[1])]

\* ------------------------------------------------------------------------
\* Command builders of the lifecycle engine
\* ------------------------------------------------------------------------

\* cmd.extend([opt, value]) for every item of an options dict
RECURSIVE ExtendPairs(_, _)
ExtendPairs(cmd, opts) ==
    IF opts = <<>> THEN cmd
    ELSE ExtendPairs(cmd \o <<Head(opts)[1], Head(opts)[2]>>, Tail(opts))

_build_restore_command(container_id, global_options, subcmd_options, checkpoint_path) ==
    LET c1 == ExtendPairs(<<original_runc_cmd>>, global_options)
        c2 == ExtendPairs(Append(c1, "restore"), subcmd_options)
        c3 == IF DictHas(subcmd_options, "--detach") THEN c2 ELSE Append(c2, "--detach")
    IN  c3 \o <<"--image-path", checkpoint_path, container_id>>

\* the loop over subcmd_options of _build_checkpoint_command
RECURSIVE CheckpointOpts(_, _, _)
CheckpointOpts(cmd, opts, checkpoint_path) ==
    IF opts = <<>> THEN cmd
    ELSE LET opt == Head(opts)[1]
             value == Head(opts)[2]
             next == IF opt \in {"--work-path", "--leave-running"} THEN cmd
                     ELSE IF opt = "--image-path" THEN cmd \o <<opt, checkpoint_path>>
                     ELSE IF value = "" THEN Append(cmd, opt)
                     ELSE cmd \o <<opt, value>>
         IN  CheckpointOpts(next, Tail(opts), checkpoint_path)

_build_checkpoint_command(container_id, global_options, subcmd_options, checkpoint_path) ==
    LET c1 == ExtendPairs(<<>>, global_options)
        c2 == CheckpointOpts(Append(c1, "checkpoint"), subcmd_options, checkpoint_path)
    IN  Append(c2, container_id)

\* ------------------------------------------------------------------------
\* Container configuration (ContainerConfigHandler)
\* ------------------------------------------------------------------------

\* The OCI configs a container can have: exists = FALSE is "no config.json
\* found"; env is process.env as <<NAME, VALUE>> pairs (split at the first =)
ConfigChoices ==
    { [exists |-> FALSE, env |-> <<>>],
      [exists |-> TRUE, env |-> << <<"ARCH_ENABLE", "0">> >>],
      [exists |-> TRUE, env |-> << <<"ARCH_ENABLE", "1">>,
                                   <<"ARCH_CHECKPOINT_HOST_PATH", "/host">> >>],
      [exists |-> TRUE, env |-> << <<"ARCH_ENABLE", "1">>,
                                   <<"ARCH_SHAREDFS_HOST_PATH", "/shared">>,
                                   <<"ARCH_CHECKPOINT_HOST_PATH", "/host">> >>] }

\* "" stands for Python's None where the default is None
_get_env_var_value(config, container_id, namespace, var_name, default) ==
    IF container_id = "" \/ namespace = "" THEN default
    ELSE IF ~config.exists THEN default
    ELSE IF DictHas(config.env, var_name)
         THEN LET first == CHOOSE j \in 1..Len(config.env) :
                               /\ config.env[j][1] = var_name
                               /\ \A k \in 1..(j - 1) : config.env[k][1] # var_name
              IN  config.env[first][2]
    ELSE default

\* mutant: a container is taken as opted in unless ARCH_ENABLE is "0"
is_arch_enabled_unless_off(config, container_id, namespace) ==
    _get_env_var_value(config, container_id, namespace, "ARCH_ENABLE", "1") # "0"

is_arch_enabled(config, container_id, namespace) ==
    _get_env_var_value(config, container_id, namespace, "ARCH_ENABLE", "0") = "1"

\* os.path.join on a first piece without trailing "/" and further pieces
\* without leading "/": a piece is appended after a "/" unless the path so
\* far is empty or ends in "/" (closed tells which)
RECURSIVE JoinOnto(_, _, _)
JoinOnto(joined, closed, rest) ==
    IF rest = <<>> THEN joined
    ELSE LET b == Head(rest)
         IN  IF closed
             THEN JoinOnto(joined \o b, b = "", Tail(rest))
             ELSE JoinOnto(joined \o "/" \o b, b = "", Tail(rest))

JoinPath(parts) == JoinOnto(Head(parts), Head(parts) = "", Tail(parts))

DEFAULT_CHECKPOINT_PATH == "/var/tmp/arch/checkpoint"

\* mutant: the checkpoint host path is looked at before the shared one
get_checkpoint_path_host_first(config, container_id, namespace) ==
    LET sharedfs_path == _get_env_var_value(config, container_id, namespace,
                                            "ARCH_SHAREDFS_HOST_PATH", "")
        checkpoint_path == _get_env_var_value(config, container_id, namespace,
                                              "ARCH_CHECKPOINT_HOST_PATH", "")
    IN  IF checkpoint_path # ""
        THEN JoinPath(<<checkpoint_path, namespace, container_id>>)
        ELSE IF sharedfs_path # ""
        THEN JoinPath(<<sharedfs_path, "checkpoint", namespace, container_id>>)
        ELSE JoinPath(<<DEFAULT_CHECKPOINT_PATH, namespace, container_id>>)

get_checkpoint_path(config, container_id, namespace) ==
    LET sharedfs_path == _get_env_var_value(config, container_id, namespace,
                                            "ARCH_SHAREDFS_HOST_PATH", "")
        checkpoint_path == _get_env_var_value(config, container_id, namespace,
                                              "ARCH_CHECKPOINT_HOST_PATH", "")
    IN  IF sharedfs_path # ""
        THEN JoinPath(<<sharedfs_path, "checkpoint", namespace, container_id>>)
        ELSE IF checkpoint_path # ""
        THEN JoinPath(<<checkpoint_path, namespace, container_id>>)
        ELSE JoinPath(<<DEFAULT_CHECKPOINT_PATH, namespace, container_id>>)

\* ------------------------------------------------------------------------
\* Flag records (ContainerFlagManager)
\* ------------------------------------------------------------------------

\* exit_status values the /tasks/exit events carry
ExitStatuses == {137}

\* mutant: a fresh record starts with keep_resources set
_create_initial_flag_keeping ==
    [version |-> STATE_VERSION, skip_start |-> FALSE, skip_resume |-> FALSE,
     keep_resources |-> TRUE, exit_code |-> None]

_create_initial_flag ==
    [version |-> STATE_VERSION, skip_start |-> FALSE, skip_resume |-> FALSE,
     keep_resources |-> FALSE, exit_code |-> None]

\* flag_data[flag_name] = value of _set_flag
SetField(doc, flag_name, value) == [doc EXCEPT ![flag_name] = value]

\* Number of bytes json.dump writes for the parts of a record that vary:
\* true / false / null and the decimal digits of exit_code
BoolLen(b) == IF b THEN 4 ELSE 5

IntLen(n) == IF n = None THEN 4 ELSE IF n < 10 THEN 1 ELSE IF n < 100 THEN 2 ELSE 3

DocLen(doc) ==
    BoolLen(doc.skip_start) + BoolLen(doc.skip_resume) + BoolLen(doc.keep_resources)
        + IntLen(doc.exit_code)

\* File contents: an empty file, one complete JSON document, or a document
\* followed by the tail of a longer, older one (not parseable)
EmptyFile == [kind |-> "empty", len |-> 0, doc |-> _create_initial_flag]

DocFile(doc) == [kind |-> "doc", len |-> DocLen(doc), doc |-> doc]

\* write(2) at offset 0 of a descriptor opened before: bytes beyond the new
\* document stay in the file
Overwrite(content, doc) ==
    IF content.len <= DocLen(doc)
    THEN DocFile(doc)
    ELSE [kind |-> "garbage", len |-> content.len, doc |-> _create_initial_flag]

\* Contents no writer of the program leaves, put there from outside: a JSON
\* object that lacks a required field, a JSON value that is no container
\* (null, a number, true), bytes that are not UTF-8, text that is not JSON
PartialFile == [kind |-> "partial", len |-> 2, doc |-> _create_initial_flag]

ScalarFile == [kind |-> "scalar", len |-> 4, doc |-> _create_initial_flag]

UndecodableFile == [kind |-> "undecodable", len |-> 1, doc |-> _create_initial_flag]

GarbageFile == [kind |-> "garbage", len |-> 12, doc |-> _create_initial_flag]

\* json.load followed by _validate_flag: TRUE iff a valid record is read
Readable(content) == content.kind = "doc"

\* json.load raises UnicodeDecodeError on bytes that are not UTF-8, and
\* "field in flag_data" of _validate_flag raises TypeError on a value that is
\* no container: neither is caught by _read_flag, _get_flag or _set_flag
ReadRaises(content) == content.kind \in {"scalar", "undecodable"}

\* ------------------------------------------------------------------------
\* State
\* ------------------------------------------------------------------------

Shims == {"shim"}

Listener == "listener"

Procs == Shims \cup {Listener}

\* (namespace, container_id) pairs that exist on the host
Containers == { <<"default", "tc">> }

\* the containers and the processes in a fixed order
ContainerOrder == << <<"default", "tc">> >>

ProcOrder == <<"shim", "listener">>

\* inode numbers of the state directory: one per path plus one per open handle
Inos == 1..(Cardinality(Containers) + Cardinality(Procs))

VARIABLES
    config,   \* container -> OCI config (exists, process.env)
    mounts,   \* container -> mounts[] of the OCI config
    cwd,      \* container -> process.cwd of the OCI config
    ckpt,     \* container -> checkpoint directory (dir, dump.log, container_files.tar)
    upper,    \* container -> overlay upperdir: "nomount", "present", "gone"
    work,     \* container -> the shared-fs work directory exists
    path,     \* container -> inode of its flag file, 0 when the file is absent
    inode,    \* inode -> file content
    fh,       \* process -> inode of its open file object, 0 when none
    pc,       \* process -> position in its code
    op,       \* process -> the flag-store call in progress
    rd,       \* process -> value returned by its last flag getter
    wbuf,     \* process -> document handed to _write_flag / _write_state
    argv,     \* shim -> sys.argv of the invocation
    trace,    \* shim -> steps performed in the invocation, in order
    child,    \* shim -> command of the restore child spawned in the invocation
    res,      \* shim -> how the last invocation ended
    levt,     \* container of the exit event the listener is processing
    ninv,     \* invocations started so far
    nev,      \* exit events received so far
    kept,     \* history: container -> a checkpoint has called set_keep_resources(True)
    ovl,      \* history: the shim's last _set_flag call and the listener's last
              \* set_exit_code were in progress at the same time
    fnArgs,   \* the function call under study: its name and arguments
    fnRet,    \* what that call returned, <<>> while it has not returned
    dirents,  \* file names in a state directory whose names are spelled out
    created   \* (namespace, container_id) pairs created in it and not cleared

fsVars == <<path, inode, fh>>

envVars == <<config, mounts, cwd, ckpt, upper, work>>

callVars == <<op, rd, wbuf>>

shimVars == <<argv, trace, child, res>>

lsnVars == <<levt>>

cntVars == <<ninv, nev>>

histVars == <<kept, ovl>>

\* the variables of the studies of single functions
fnVars == <<fnArgs, fnRet, dirents, created>>

\* the variables of the shim, the flag store and the listener
sysVars == <<config, mounts, cwd, ckpt, upper, work, path, inode, fh,
             pc, op, rd, wbuf, argv, trace, child, res, levt, ninv, nev, kept, ovl>>

vars == <<config, mounts, cwd, ckpt, upper, work, path, inode, fh,
          pc, op, rd, wbuf, argv, trace, child, res, levt, ninv, nev, kept, ovl,
          fnArgs, fnRet, dirents, created>>

\* no function call is under study
FnAtRest ==
    /\ fnArgs = <<>>
    /\ fnRet = <<>>
    /\ dirents = {}
    /\ created = {}

NoOp == [kind |-> "none", field |-> "none", value |-> FALSE, k |-> "idle", kfail |-> "idle"]

NoRead == [ok |-> FALSE, doc |-> _create_initial_flag]

\* the listener is between events
NoEvent == <<"", "">>

NoConfig == [exists |-> FALSE, env |-> <<>>]

CkptChoices ==
    { [dir |-> FALSE, dump |-> "none", tar |-> FALSE],
      [dir |-> TRUE, dump |-> "bad", tar |-> TRUE],
      [dir |-> TRUE, dump |-> "ok", tar |-> FALSE],
      [dir |-> TRUE, dump |-> "ok", tar |-> TRUE] }

Init ==
    /\ config \in [Containers -> ConfigChoices]
    /\ mounts = [c \in Containers |-> <<>>]
    /\ cwd = [c \in Containers |-> "/"]
    /\ ckpt \in [Containers -> CkptChoices]
    /\ upper \in [Containers -> {"nomount", "present"}]
    /\ work = [c \in Containers |-> FALSE]
    /\ path = [c \in Containers |-> 0]
    /\ inode = [i \in Inos |-> EmptyFile]
    /\ fh = [q \in Procs |-> 0]
    /\ pc = [q \in Procs |-> "idle"]
    /\ op = [q \in Procs |-> NoOp]
    /\ rd = [q \in Procs |-> FALSE]
    /\ wbuf = [q \in Procs |-> _create_initial_flag]
    /\ argv = [s \in Shims |-> <<>>]
    /\ trace = [s \in Shims |-> <<>>]
    /\ child = [s \in Shims |-> <<>>]
    /\ res = [s \in Shims |-> [kind |-> "none", status |-> 0, cmd |-> <<>>]]
    /\ levt = NoEvent
    /\ ninv = 0
    /\ nev = 0
    /\ kept = [c \in Containers |-> FALSE]
    /\ ovl = FALSE
    /\ FnAtRest

\* ------------------------------------------------------------------------
\* The state directory as a file system
\* ------------------------------------------------------------------------

Referenced(p, h) == ({p[c] : c \in Containers} \cup {h[q] : q \in Procs}) \ {0}

\* an inode number no path and no open file refers to
FreshIno == CHOOSE i \in Inos : i \notin Referenced(path, fh)

\* Inode numbers are names the program never sees. The state keeps the
\* inodes in use numbered 1, 2, ... in the order in which they are met along
\* the paths in ContainerOrder, then the open files in ProcOrder; an inode
\* nothing refers to is freed.
RefAt(p, h, k) ==
    IF k <= Len(ContainerOrder)
    THEN p[ContainerOrder[k]]
    ELSE h[ProcOrder[k - Len(ContainerOrder)]]

NRefs == Len(ContainerOrder) + Len(ProcOrder)

Rank(i, p, h) ==
    LET first == CHOOSE k \in 1..NRefs :
                     RefAt(p, h, k) = i /\ \A j \in 1..(k - 1) : RefAt(p, h, j) # i
    IN  Cardinality({RefAt(p, h, j) : j \in 1..first} \ {0})

Renumber(i, p, h) == IF i = 0 THEN 0 ELSE Rank(i, p, h)

\* the state directory after a step that leaves paths p, contents ino and
\* open files h
Store(p, ino, h) ==
    /\ path' = [c \in Containers |-> Renumber(p[c], p, h)]
    /\ fh' = [q \in Procs |-> Renumber(h[q], p, h)]
    /\ inode' = [n \in Inos |->
                   IF \E i \in Referenced(p, h) : Rank(i, p, h) = n
                   THEN ino[CHOOSE i \in Referenced(p, h) : Rank(i, p, h) = n]
                   ELSE EmptyFile]

\* the container a process is working on
ParsedOf(s) == parse_command(argv[s])

Cur(q) ==
    IF q \in Shims
    THEN LET p == ParsedOf(q) IN <<p.namespace, p.container_id>>
    ELSE levt

ConfigOf(c) == IF c \in Containers THEN config[c] ELSE NoConfig

\* the record file of container c in directory dir; path maps the files of
\* STATE_PATH, the only directory in which the program creates record files
_get_flag_file(dir, c) == <<dir, c>>

FileExists(f) == f[1] = STATE_PATH /\ f[2] \in Containers /\ path[f[2]] # 0

\* has_flag: os.path.exists of the flag file
has_flag(c) == FileExists(_get_flag_file(STATE_PATH, c))

\* has_state: os.path.exists of the listener's state file
has_state(c) == FileExists(_get_flag_file(STATE_DIR, c))

\* the record file of the call in progress exists
RecordExists(q) == IF q \in Shims THEN has_flag(Cur(q)) ELSE has_state(Cur(q))

\* json.load followed by ContainerStateManager._validate_state
ReadableState(content) == content.kind = "doc"

\* ------------------------------------------------------------------------
\* Flag-store calls, one action per file-system call.
\* op[q].kind: "create" = create_flag, "get" = _get_flag, "set" = _set_flag,
\* "lset" = ContainerStateManager.set_exit_code (the listener).
\* op[q].k is where the caller continues, op[q].kfail where it continues
\* when the call raises.
\* ------------------------------------------------------------------------

\* An invocation has just ended and its outcome is being observed. Exit
\* commutes with every step of another process (it changes only the record
\* of the ended invocation), so the other processes are scheduled after it.
Observing == \E s \in Shims : pc[s] = "done"

\* positions inside a flag-store call
FsPcs == {"has", "ropen", "rread", "wopen", "wclose"}

\* a _set_flag call of a shim and a set_exit_code of the listener are both in progress
Overlap(p, o) ==
    /\ p[Listener] # "idle"
    /\ \E s \in Shims : p[s] \in FsPcs /\ o[s].kind = "set"

\* the history variables follow the step taken
History ==
    /\ kept' = [c \in Containers |->
                  kept[c] \/ \E s \in Shims : /\ pc[s] = "ckpt_set2"
                                                /\ pc'[s] # "ckpt_set2"
                                                /\ Cur(s) = c]
    /\ ovl' = IF \/ \E s \in Shims : op'[s] # op[s]
                 \/ pc[Listener] = "idle" /\ pc'[Listener] # "idle"
              THEN Overlap(pc', op')
              ELSE ovl \/ Overlap(pc', op')
    /\ UNCHANGED fnVars

\* the listener's _process_event is over: exceptions are caught and logged
ListenerEnds ==
    /\ pc' = [pc EXCEPT ![Listener] = "idle"]
    /\ op' = [op EXCEPT ![Listener] = NoOp]
    /\ rd' = [rd EXCEPT ![Listener] = FALSE]
    /\ wbuf' = [wbuf EXCEPT ![Listener] = _create_initial_flag]
    /\ levt' = NoEvent

\* _set_flag returns without writing: the "Cannot set ..." warning is the only
\* thing it leaves
SetSkipped(q) == [trace EXCEPT ![q] = Append(@, "set_skipped")]

\* mutant: a setter that finds no record writes one
FsHas_creating(q) ==
    /\ pc[q] = "has"
    /\ ~Observing
    /\ IF RecordExists(q)
       THEN pc' = [pc EXCEPT ![q] = "ropen"] /\ UNCHANGED <<callVars, lsnVars>>
       ELSE /\ pc' = [pc EXCEPT ![q] = "wopen"]
            /\ wbuf' = [wbuf EXCEPT ![q] =
                           SetField(_create_initial_flag, op[q].field, op[q].value)]
            /\ UNCHANGED <<op, rd, lsnVars>>
    /\ UNCHANGED <<fsVars, envVars, argv, trace, child, res>>
    /\ UNCHANGED cntVars
    /\ History

\* _set_flag / set_exit_code: the has_flag / has_state test
FsHas(q) ==
    /\ pc[q] = "has"
    /\ ~Observing
    /\ IF RecordExists(q)
       THEN pc' = [pc EXCEPT ![q] = "ropen"] /\ UNCHANGED <<callVars, lsnVars>>
       ELSE IF q \in Shims
            THEN pc' = [pc EXCEPT ![q] = op[q].k] /\ UNCHANGED <<callVars, lsnVars>>
            ELSE ListenerEnds
    /\ trace' = IF q \in Shims /\ ~RecordExists(q) THEN SetSkipped(q) ELSE trace
    /\ UNCHANGED <<fsVars, envVars, argv, child, res>>
    /\ UNCHANGED cntVars
    /\ History

\* What follows _read_flag / _read_state returning r (r.ok = FALSE: None or
\* an exception). _get_flag returns "flag_data.get(flag_name, default) if
\* flag_data else default" (op[q].value holds the default of a getter);
\* _set_flag returns silently on None and writes the
\* changed document otherwise; set_exit_code lets the exception out.
ReadDone(q, r) ==
    IF op[q].kind = "get"
    THEN /\ pc' = [pc EXCEPT ![q] = op[q].k]
         /\ rd' = [rd EXCEPT ![q] = IF r.ok THEN r.doc[op[q].field] ELSE op[q].value]
         /\ UNCHANGED <<op, wbuf, lsnVars, trace>>
    ELSE IF r.ok
    THEN /\ pc' = [pc EXCEPT ![q] = "wopen"]
         /\ wbuf' = [wbuf EXCEPT ![q] = SetField(r.doc, op[q].field, op[q].value)]
         /\ UNCHANGED <<op, rd, lsnVars, trace>>
    ELSE IF q \in Shims
    THEN /\ pc' = [pc EXCEPT ![q] = op[q].k]
         /\ trace' = SetSkipped(q)
         /\ UNCHANGED <<op, rd, wbuf, lsnVars>>
    ELSE ListenerEnds /\ UNCHANGED trace

\* open(file, 'r'): FileNotFoundError when the file is absent
FsROpen(q) ==
    /\ pc[q] = "ropen"
    /\ ~Observing
    /\ IF RecordExists(q)
       THEN /\ Store(path, inode, [fh EXCEPT ![q] = path[Cur(q)]])
            /\ pc' = [pc EXCEPT ![q] = "rread"]
            /\ UNCHANGED <<callVars, lsnVars, trace>>
       ELSE /\ ReadDone(q, NoRead)
            /\ UNCHANGED fsVars
    /\ UNCHANGED <<envVars, argv, child, res>>
    /\ UNCHANGED cntVars
    /\ History

\* flock(LOCK_SH), json.load, validation, LOCK_UN and close. The shared lock
\* is taken and released within this step; a writer holds LOCK_EX only while
\* it fills its buffer (see FsWOpen), so the lock never has to be waited for
\* across steps.
FsRRead(q) ==
    /\ pc[q] = "rread"
    /\ ~Observing
    /\ LET content == inode[fh[q]]
           good == IF q \in Shims THEN Readable(content) ELSE ReadableState(content)
           r == IF good THEN [ok |-> TRUE, doc |-> content.doc] ELSE NoRead
       IN  IF q \in Shims /\ ReadRaises(content)
           THEN /\ pc' = [pc EXCEPT ![q] = op[q].kfail]
                /\ UNCHANGED <<callVars, lsnVars, trace>>
           ELSE ReadDone(q, r)
    /\ Store(path, inode, [fh EXCEPT ![q] = 0])
    /\ UNCHANGED <<envVars, argv, child, res>>
    /\ UNCHANGED cntVars
    /\ History

\* flock(LOCK_SH) raises IOError: _read_flag logs "Failed to lock flag file"
\* and returns None; the file is closed
FsRLockFails(q) ==
    /\ pc[q] = "rread"
    /\ ~Observing
    /\ q \in Shims
    /\ IF op[q].kind = "get"
       THEN /\ pc' = [pc EXCEPT ![q] = op[q].k]
            /\ rd' = [rd EXCEPT ![q] = op[q].value]
            /\ trace' = [trace EXCEPT ![q] = Append(@, "lock_failed")]
       ELSE /\ pc' = [pc EXCEPT ![q] = op[q].k]
            /\ trace' = [trace EXCEPT ![q] = @ \o <<"lock_failed", "set_skipped">>]
            /\ UNCHANGED rd
    /\ UNCHANGED <<op, wbuf, lsnVars>>
    /\ Store(path, inode, [fh EXCEPT ![q] = 0])
    /\ UNCHANGED <<envVars, argv, child, res>>
    /\ UNCHANGED cntVars
    /\ History

\* open(file, 'w') creates the file or truncates it, before any lock is
\* taken (ok = FALSE is the open raising IOError); then flock(LOCK_EX),
\* json.dump into the buffer of the file object and flock(LOCK_UN) in the
\* finally clause: nothing of the document is in the file yet when the lock
\* is released.
FsWOpen(q, ok) ==
    /\ pc[q] = "wopen"
    /\ ~Observing
    /\ Cur(q) \in Containers
    /\ IF ok
       THEN /\ LET c == Cur(q)
                   i == IF path[c] # 0 THEN path[c] ELSE FreshIno
               IN  Store([path EXCEPT ![c] = i],
                         [inode EXCEPT ![i] = EmptyFile],
                         [fh EXCEPT ![q] = i])
            /\ pc' = [pc EXCEPT ![q] = "wclose"]
            /\ UNCHANGED <<callVars, lsnVars>>
       ELSE /\ UNCHANGED <<path, inode, fh>>
            /\ IF q \in Shims
               THEN pc' = [pc EXCEPT ![q] = op[q].kfail] /\ UNCHANGED <<callVars, lsnVars>>
               ELSE ListenerEnds
    /\ UNCHANGED <<envVars, shimVars>>
    /\ UNCHANGED cntVars
    /\ History

\* leaving the with block: the buffer is flushed to the inode and the file closed
FsWClose(q) ==
    /\ pc[q] = "wclose"
    /\ ~Observing
    /\ Store(path,
             [inode EXCEPT ![fh[q]] = Overwrite(inode[fh[q]], wbuf[q])],
             [fh EXCEPT ![q] = 0])
    /\ IF q \in Shims
       THEN pc' = [pc EXCEPT ![q] = op[q].k] /\ UNCHANGED <<callVars, lsnVars>>
       ELSE ListenerEnds
    /\ UNCHANGED <<envVars, shimVars>>
    /\ UNCHANGED cntVars
    /\ History

\* ------------------------------------------------------------------------
\* Lifecycle engine (RuncHandler)
\* ------------------------------------------------------------------------

Running == [kind |-> "running", status |-> 0, cmd |-> <<>>]

ShimCallReset(s) ==
    /\ op' = [op EXCEPT ![s] = NoOp]
    /\ rd' = [rd EXCEPT ![s] = FALSE]
    /\ wbuf' = [wbuf EXCEPT ![s] = _create_initial_flag]

\* _execute_command(args): os.execvp replaces the process (ok) or raises and
\* 1 is returned
ExecEnds(s, args, ok) ==
    /\ pc' = [pc EXCEPT ![s] = "done"]
    /\ res' = [res EXCEPT ![s] = [kind |-> IF ok THEN "exec" ELSE "execfail",
                                  status |-> IF ok THEN None ELSE 1,
                                  cmd |-> args]]
    /\ ShimCallReset(s)

\* the handler returns status to main, which exits with it
ReturnEnds(s, status) ==
    /\ pc' = [pc EXCEPT ![s] = "done"]
    /\ res' = [res EXCEPT ![s] = [kind |-> "ret", status |-> status, cmd |-> <<>>]]
    /\ ShimCallReset(s)

NoResult == [kind |-> "none", status |-> 0, cmd |-> <<>>]

\* The process of the invocation is gone. pc = "done" is the instant the
\* invocation ends, kept as a state so that its outcome can be observed; this
\* step only forgets the record of the invocation.
Exit(s) ==
    /\ pc[s] = "done"
    /\ pc' = [pc EXCEPT ![s] = "idle"]
    /\ argv' = [argv EXCEPT ![s] = <<>>]
    /\ trace' = [trace EXCEPT ![s] = <<>>]
    /\ child' = [child EXCEPT ![s] = <<>>]
    /\ res' = [res EXCEPT ![s] = NoResult]
    /\ UNCHANGED <<fsVars, envVars, callVars, lsnVars>>
    /\ UNCHANGED cntVars
    /\ History

\* a flag-store call is started
Call(s, kind, field, value, k, kfail, first) ==
    /\ op' = [op EXCEPT ![s] = [kind |-> kind, field |-> field, value |-> value,
                                k |-> k, kfail |-> kfail]]
    /\ pc' = [pc EXCEPT ![s] = first]

\* intercept_command up to the opt-in check
Invoke(s, a, ok) ==
    /\ pc[s] = "idle"
    /\ ninv < MaxInvocations
    /\ ninv' = ninv + 1
    /\ argv' = [argv EXCEPT ![s] = a]
    /\ UNCHANGED <<trace, child>>
    /\ LET p == parse_command(a)
           c == <<p.namespace, p.container_id>>
       IN  IF p.subcommand \notin INTERCEPTABLE_COMMANDS
              \/ ~is_arch_enabled(ConfigOf(c), p.container_id, p.namespace)
           THEN ExecEnds(s, Tail(a), ok)
           ELSE /\ pc' = [pc EXCEPT ![s] = "ensure"]
                /\ res' = [res EXCEPT ![s] = Running]
                /\ ShimCallReset(s)
    /\ UNCHANGED <<fsVars, envVars, lsnVars>>
    /\ UNCHANGED nev
    /\ History

\* "if not has_flag: create_flag"
EnsureFlag(s) ==
    /\ pc[s] = "ensure"
    /\ IF has_flag(Cur(s))
       THEN /\ pc' = [pc EXCEPT ![s] = "dispatch"]
            /\ UNCHANGED <<op, wbuf>>
       ELSE /\ Call(s, "create", "none", FALSE, "dispatch", "outer_exc", "wopen")
            /\ wbuf' = [wbuf EXCEPT ![s] = _create_initial_flag]
    /\ UNCHANGED <<fsVars, envVars, rd, shimVars, lsnVars>>
    /\ UNCHANGED cntVars
    /\ History

\* mutant: start is handled by the create handler
Dispatch_start_as_create(s, ok) ==
    /\ pc[s] = "dispatch"
    /\ LET sub == ParsedOf(s).subcommand
           same == UNCHANGED <<rd, wbuf, res>>
       IN  CASE sub = "create" -> pc' = [pc EXCEPT ![s] = "create_work"] /\ UNCHANGED op /\ same
             [] sub = "start" -> pc' = [pc EXCEPT ![s] = "create_work"] /\ UNCHANGED op /\ same
             [] sub = "delete" -> pc' = [pc EXCEPT ![s] = "delete_has"] /\ UNCHANGED op /\ same
             [] sub = "checkpoint" -> pc' = [pc EXCEPT ![s] = "ckpt_work"] /\ UNCHANGED op /\ same
             [] sub = "resume" ->
                    Call(s, "get", "skip_resume", FALSE, "resume_got", "outer_exc", "ropen") /\ same
             [] OTHER -> ExecEnds(s, Tail(argv[s]), ok)
    /\ UNCHANGED <<fsVars, envVars, argv, trace, child, lsnVars>>
    /\ UNCHANGED cntVars
    /\ History

\* the if / elif chain on subcommand
Dispatch(s, ok) ==
    /\ pc[s] = "dispatch"
    /\ LET sub == ParsedOf(s).subcommand
           same == UNCHANGED <<rd, wbuf, res>>
       IN  CASE sub = "create" -> pc' = [pc EXCEPT ![s] = "create_work"] /\ UNCHANGED op /\ same
             [] sub = "start" ->
                    Call(s, "get", "skip_start", FALSE, "start_got", "outer_exc", "ropen") /\ same
             [] sub = "delete" -> pc' = [pc EXCEPT ![s] = "delete_has"] /\ UNCHANGED op /\ same
             [] sub = "checkpoint" -> pc' = [pc EXCEPT ![s] = "ckpt_work"] /\ UNCHANGED op /\ same
             [] sub = "resume" ->
                    Call(s, "get", "skip_resume", FALSE, "resume_got", "outer_exc", "ropen") /\ same
             [] OTHER -> ExecEnds(s, Tail(argv[s]), ok)
    /\ UNCHANGED <<fsVars, envVars, argv, trace, child, lsnVars>>
    /\ UNCHANGED cntVars
    /\ History

\* the except clause of intercept_command: the warning, then the original command
OuterExcept(s, ok) ==
    /\ pc[s] = "outer_exc"
    /\ trace' = [trace EXCEPT ![s] = Append(@, "error")]
    /\ ExecEnds(s, Tail(argv[s]), ok)
    /\ UNCHANGED <<fsVars, envVars, argv, child, lsnVars>>
    /\ UNCHANGED cntVars
    /\ History

\* "return 0" after a latch was set or consumed
ReturnZero(s) ==
    /\ pc[s] = "ret0"
    /\ ReturnEnds(s, 0)
    /\ UNCHANGED <<fsVars, envVars, argv, trace, child, lsnVars>>
    /\ UNCHANGED cntVars
    /\ History

\* ---- create ----

\* write_fail: open(config_path, 'w') raises, the file is as it was;
\* write_torn: the open truncated the file and json.dump or the close raises
BindOutcomes == {"ok", "mkdir_fail", "no_rootfs", "no_dest", "write_fail", "write_torn"}

\* a config.json cut short: _read_config returns None for it, so that every
\* variable gets its default, and it has no mounts and no process.cwd
TornConfig == [exists |-> TRUE, env |-> <<>>]

_get_env_path(cfg, container_id, namespace, var_name, default) ==
    _get_env_var_value(cfg, container_id, namespace, var_name, default)

\* add_bind_mount: the value returned and the config / work directory left
add_bind_mount(c, bind) ==
    LET cfg == config[c]
        same == [ret |-> TRUE, config |-> cfg, mounts |-> mounts[c], cwd |-> cwd[c],
                 work |-> work[c]]
        sharedfs_path == _get_env_var_value(cfg, c[2], c[1], "ARCH_SHAREDFS_HOST_PATH", "")
        dest_path == _get_env_path(cfg, c[2], c[1], "ARCH_WORKDIR_CONTAINER_PATH", "/tmp")
        source_path == JoinPath(<<sharedfs_path, "work", c[1], c[2]>>)
        made == [same EXCEPT !.ret = FALSE, !.work = TRUE]
    IN  IF sharedfs_path = "" THEN same
        ELSE IF bind = "mkdir_fail" THEN [same EXCEPT !.ret = FALSE]
        ELSE IF bind \in {"no_rootfs", "no_dest"} THEN made
        ELSE IF \E j \in 1..Len(mounts[c]) : mounts[c][j].destination = dest_path THEN made
        ELSE IF \E j \in 1..Len(mounts[c]) :
                    mounts[c][j].type = "bind" /\ mounts[c][j].source = source_path THEN made
        ELSE IF bind = "write_fail" THEN made
        ELSE IF bind = "write_torn"
        THEN [made EXCEPT !.config = TornConfig, !.mounts = <<>>, !.cwd = ""]
        ELSE [ret |-> TRUE,
              config |-> cfg,
              mounts |-> Append(mounts[c], [type |-> "bind", source |-> source_path,
                                            destination |-> dest_path]),
              cwd |-> dest_path,
              work |-> TRUE]

\* get_upperdir: "" stands for None
get_upperdir(c) == IF upper[c] = "nomount" THEN "" ELSE "/snap/tc/fs"

\* validate_checkpoint on the text of dump.log: dump_log.exists is
\* os.path.exists, dump_log.lines is f.readlines() with each line reduced to
\* what matters after strip(): "" (nothing left), "success" (the line has
\* "Dumping finished successfully" in it) or "other". readlines()[-1] of an
\* empty file raises IndexError, which is caught.
validate_checkpoint_log(dump_log) ==
    IF ~dump_log.exists THEN FALSE
    ELSE IF dump_log.lines = <<>> THEN FALSE
    ELSE dump_log.lines[Len(dump_log.lines)] = "success"

\* mutant: the checkpoint directory is enough, dump.log is not looked at
validate_checkpoint_dir_only(c) == ckpt[c].dir

validate_checkpoint(c) == ckpt[c].dir /\ ckpt[c].dump = "ok"

\* mutant: the restore of the files succeeds without an archive to extract
restore_checkpoint_file_without_tar(c, extractOk) ==
    ckpt[c].dir /\ upper[c] = "present"

\* restore_checkpoint_file: extractOk is tarfile extraction not raising
restore_checkpoint_file(c, extractOk) ==
    ckpt[c].dir /\ upper[c] = "present" /\ ckpt[c].tar /\ extractOk

\* rollback_restore_file: shutil.rmtree(upperdir) when it exists
rollback_restore_file(u) == IF u = "present" THEN "gone" ELSE u

\* _handle_create_command up to the call of set_skip_start
CreateWork(s, bind, extractOk, childOk, ok) ==
    /\ pc[s] = "create_work"
    /\ LET c == Cur(s)
           p == ParsedOf(s)
           checkpoint_path == get_checkpoint_path(config[c], p.container_id, p.namespace)
           b == add_bind_mount(c, bind)
           restore_cmd == _build_restore_command(p.container_id, p.global_options,
                                                 p.subcommand_options, checkpoint_path)
       IN  IF checkpoint_path = "" \/ get_upperdir(c) = ""
           THEN /\ ExecEnds(s, Tail(argv[s]), ok)
                /\ trace' = [trace EXCEPT ![s] = Append(@, "no_paths")]
                /\ UNCHANGED <<envVars, child>>
           ELSE /\ mounts' = [mounts EXCEPT ![c] = b.mounts]
                /\ cwd' = [cwd EXCEPT ![c] = b.cwd]
                /\ work' = [work EXCEPT ![c] = b.work]
                /\ config' = [config EXCEPT ![c] = b.config]
                /\ UNCHANGED ckpt
                /\ IF ~b.ret
                   THEN /\ ExecEnds(s, Tail(argv[s]), ok)
                        /\ trace' = [trace EXCEPT ![s] = Append(@, "add_bind_mount")]
                        /\ UNCHANGED <<upper, child>>
                   ELSE IF ~validate_checkpoint(c)
                   THEN /\ ExecEnds(s, Tail(argv[s]), ok)
                        /\ trace' = [trace EXCEPT ![s] = @ \o <<"add_bind_mount", "validate">>]
                        /\ UNCHANGED <<upper, child>>
                   ELSE IF ~restore_checkpoint_file(c, extractOk)
                   THEN /\ ExecEnds(s, Tail(argv[s]), ok)
                        /\ trace' = [trace EXCEPT ![s] = @ \o <<"add_bind_mount", "validate",
                                                                "restore_files", "rollback">>]
                        /\ upper' = [upper EXCEPT ![c] = rollback_restore_file(@)]
                        /\ UNCHANGED child
                   ELSE /\ child' = [child EXCEPT ![s] = restore_cmd]
                        /\ UNCHANGED upper
                        /\ IF childOk
                           THEN /\ trace' = [trace EXCEPT ![s] =
                                              @ \o <<"add_bind_mount", "validate",
                                                     "restore_files", "restore_child">>]
                                /\ Call(s, "set", "skip_start", TRUE, "ret0", "create_exc", "has")
                                /\ UNCHANGED <<rd, wbuf, res>>
                           ELSE /\ trace' = [trace EXCEPT ![s] =
                                              @ \o <<"add_bind_mount", "validate", "restore_files",
                                                     "restore_child", "restore_failed">>]
                                /\ ExecEnds(s, Tail(argv[s]), ok)
    /\ UNCHANGED <<fsVars, argv, lsnVars>>
    /\ UNCHANGED cntVars
    /\ History

\* the except clause of _handle_create_command, then the fall back to create
CreateExcept(s, ok) ==
    /\ pc[s] = "create_exc"
    /\ upper' = [upper EXCEPT ![Cur(s)] = rollback_restore_file(@)]
    /\ trace' = [trace EXCEPT ![s] = @ \o <<"error", "rollback">>]
    /\ ExecEnds(s, Tail(argv[s]), ok)
    /\ UNCHANGED <<fsVars, config, mounts, cwd, ckpt, work, argv, child, lsnVars>>
    /\ UNCHANGED cntVars
    /\ History

\* ---- start / resume ----

\* mutant: the latch is taken as set whatever the getter returned
GotFlag_any(s) == TRUE

\* the value the getter returned
GotFlag(s) == rd[s]

\* _handle_start_command after get_skip_start returned
StartGot(s, ok) ==
    /\ pc[s] = "start_got"
    /\ IF GotFlag(s)
       THEN /\ Call(s, "set", "skip_start", FALSE, "ret0", "outer_exc", "has")
            /\ UNCHANGED <<rd, wbuf, res>>
       ELSE ExecEnds(s, Tail(argv[s]), ok)
    /\ UNCHANGED <<fsVars, envVars, argv, trace, child, lsnVars>>
    /\ UNCHANGED cntVars
    /\ History

\* _handle_resume_command after get_skip_resume returned
ResumeGot(s, ok) ==
    /\ pc[s] = "resume_got"
    /\ IF GotFlag(s)
       THEN /\ Call(s, "set", "skip_resume", FALSE, "ret0", "outer_exc", "has")
            /\ UNCHANGED <<rd, wbuf, res>>
       ELSE ExecEnds(s, Tail(argv[s]), ok)
    /\ UNCHANGED <<fsVars, envVars, argv, trace, child, lsnVars>>
    /\ UNCHANGED cntVars
    /\ History

\* ---- delete ----

\* _handle_delete_command: the has_flag test
DeleteHas(s, ok) ==
    /\ pc[s] = "delete_has"
    /\ IF has_flag(Cur(s))
       THEN /\ Call(s, "get", "keep_resources", FALSE, "delete_got", "outer_exc", "ropen")
            /\ UNCHANGED <<rd, wbuf, res>>
       ELSE ExecEnds(s, Tail(argv[s]), ok)
    /\ UNCHANGED <<fsVars, envVars, argv, trace, child, lsnVars>>
    /\ UNCHANGED cntVars
    /\ History

\* cleanup_checkpoint: shutil.rmtree of an existing directory, rmOk = it did not raise
cleanup_checkpoint(k, rmOk) ==
    IF k.dir /\ rmOk THEN [dir |-> FALSE, dump |-> "none", tar |-> FALSE] ELSE k

\* delete_work_directory
delete_work_directory(c, rmOk) ==
    IF _get_env_var_value(config[c], c[2], c[1], "ARCH_SHAREDFS_HOST_PATH", "") = ""
    THEN work[c]
    ELSE IF work[c] /\ rmOk THEN FALSE ELSE work[c]

\* _handle_delete_command after get_keep_resources returned: cleanup,
\* clear_flag (os.remove) and the real delete
DeleteGot(s, rmOk, ok) ==
    /\ pc[s] = "delete_got"
    /\ LET c == Cur(s)
       IN  /\ IF ~GotFlag(s)
              THEN /\ ckpt' = [ckpt EXCEPT ![c] = cleanup_checkpoint(@, rmOk)]
                   /\ work' = [work EXCEPT ![c] = delete_work_directory(c, rmOk)]
                   /\ trace' = [trace EXCEPT ![s] = @ \o <<"cleanup_checkpoint",
                                                   "delete_work_directory", "clear_flag">>]
              ELSE /\ UNCHANGED <<ckpt, work>>
                   /\ trace' = [trace EXCEPT ![s] = Append(@, "clear_flag")]
           /\ Store([path EXCEPT ![c] = 0], inode, fh)
    /\ ExecEnds(s, Tail(argv[s]), ok)
    /\ UNCHANGED <<config, mounts, cwd, upper, argv, child, lsnVars>>
    /\ UNCHANGED cntVars
    /\ History

\* ---- checkpoint ----

\* save_checkpoint_file: tarOk is tarfile not raising
save_checkpoint_file(c, tarOk) == upper[c] = "present" /\ tarOk

\* _handle_checkpoint_command up to the call of set_skip_resume
CheckpointWork(s, tarOk, ok) ==
    /\ pc[s] = "ckpt_work"
    /\ LET c == Cur(s)
           p == ParsedOf(s)
           checkpoint_path == get_checkpoint_path(config[c], p.container_id, p.namespace)
       IN  IF checkpoint_path = "" \/ get_upperdir(c) = ""
           THEN /\ ExecEnds(s, Tail(argv[s]), ok)
                /\ trace' = [trace EXCEPT ![s] = Append(@, "no_paths")]
                /\ UNCHANGED ckpt
           ELSE /\ trace' = [trace EXCEPT ![s] =
                               IF save_checkpoint_file(c, tarOk)
                               THEN Append(@, "save")
                               ELSE @ \o <<"save", "save_failed">>]
                /\ ckpt' = [ckpt EXCEPT ![c] =
                              IF upper[c] = "present"
                              THEN [dir |-> TRUE, dump |-> @.dump, tar |-> TRUE]
                              ELSE @]
                /\ IF save_checkpoint_file(c, tarOk)
                   THEN /\ Call(s, "set", "skip_resume", TRUE, "ckpt_set2", "ckpt_exc", "has")
                        /\ UNCHANGED <<rd, wbuf, res>>
                   ELSE ExecEnds(s, Tail(argv[s]), ok)
    /\ UNCHANGED <<fsVars, config, mounts, cwd, upper, work, argv, child, lsnVars>>
    /\ UNCHANGED cntVars
    /\ History

\* set_keep_resources(True) after set_skip_resume(True) returned
CheckpointSetKeep(s) ==
    /\ pc[s] = "ckpt_set2"
    /\ Call(s, "set", "keep_resources", TRUE, "ckpt_exec", "ckpt_exc", "has")
    /\ UNCHANGED <<fsVars, envVars, rd, wbuf, shimVars, lsnVars>>
    /\ UNCHANGED cntVars
    /\ History

\* the modified checkpoint command is handed to the real runtime, which
\* writes dump.log (dumpOk: it ends with the success line)
CheckpointExec(s, dumpOk, ok) ==
    /\ pc[s] = "ckpt_exec"
    /\ LET c == Cur(s)
           p == ParsedOf(s)
           checkpoint_path == get_checkpoint_path(config[c], p.container_id, p.namespace)
           checkpoint_cmd == _build_checkpoint_command(p.container_id, p.global_options,
                                                       p.subcommand_options, checkpoint_path)
       IN  /\ ExecEnds(s, checkpoint_cmd, ok)
           /\ ckpt' = [ckpt EXCEPT ![c] =
                         IF ok THEN [@ EXCEPT !.dir = TRUE,
                                              !.dump = IF dumpOk THEN "ok" ELSE "bad"]
                         ELSE @]
    /\ UNCHANGED <<fsVars, config, mounts, cwd, upper, work, argv, trace, child, lsnVars>>
    /\ UNCHANGED cntVars
    /\ History

\* the except clause of _handle_checkpoint_command
CheckpointExcept(s, ok) ==
    /\ pc[s] = "ckpt_exc"
    /\ trace' = [trace EXCEPT ![s] = Append(@, "error")]
    /\ ExecEnds(s, Tail(argv[s]), ok)
    /\ UNCHANGED <<fsVars, envVars, argv, child, lsnVars>>
    /\ UNCHANGED cntVars
    /\ History

\* ------------------------------------------------------------------------
\* Event listener (ContainerEventListener._process_event, /tasks/exit)
\* ------------------------------------------------------------------------

\* an exit event for container c with exit_status code: has_state, then
\* set_exit_code; an event for a container without a record changes nothing
ExitEvent(c, code) ==
    /\ pc[Listener] = "idle"
    /\ ~Observing
    /\ nev < MaxEvents
    /\ nev' = nev + 1
    /\ has_state(c)
    /\ levt' = c
    /\ pc' = [pc EXCEPT ![Listener] = "has"]
    /\ op' = [op EXCEPT ![Listener] =
                [kind |-> "lset", field |-> "exit_code", value |-> code,
                 k |-> "idle", kfail |-> "idle"]]
    /\ UNCHANGED <<fsVars, envVars, rd, wbuf, shimVars>>
    /\ UNCHANGED ninv
    /\ History

\* ------------------------------------------------------------------------
\* Specification
\* ------------------------------------------------------------------------

FlagStoreStep(q) ==
    \/ FsHas(q)
    \/ FsROpen(q)
    \/ FsRRead(q)
    \/ \E ok \in BOOLEAN : FsWOpen(q, ok)
    \/ FsWClose(q)

\* the outcomes drawn for a step are those of the place the process is at
OutcomesAt(s, place, outcomes) == IF pc[s] = place THEN outcomes ELSE {}

ShimStep(s) ==
    \/ \E a \in OutcomesAt(s, "idle", ArgvSet), ok \in BOOLEAN : Invoke(s, a, ok)
    \/ Exit(s)
    \/ EnsureFlag(s)
    \/ \E ok \in BOOLEAN : Dispatch(s, ok)
    \/ \E ok \in BOOLEAN : OuterExcept(s, ok)
    \/ ReturnZero(s)
    \/ \E bind \in OutcomesAt(s, "create_work", BindOutcomes),
          extractOk \in BOOLEAN, childOk \in BOOLEAN, ok \in BOOLEAN :
          CreateWork(s, bind, extractOk, childOk, ok)
    \/ \E ok \in BOOLEAN : CreateExcept(s, ok)
    \/ \E ok \in BOOLEAN : StartGot(s, ok)
    \/ \E ok \in BOOLEAN : ResumeGot(s, ok)
    \/ \E ok \in BOOLEAN : DeleteHas(s, ok)
    \/ \E rmOk \in BOOLEAN, ok \in BOOLEAN : DeleteGot(s, rmOk, ok)
    \/ \E tarOk \in BOOLEAN, ok \in BOOLEAN : CheckpointWork(s, tarOk, ok)
    \/ CheckpointSetKeep(s)
    \/ \E dumpOk \in BOOLEAN, ok \in BOOLEAN : CheckpointExec(s, dumpOk, ok)
    \/ \E ok \in BOOLEAN : CheckpointExcept(s, ok)

ListenerStep ==
    \E c \in Containers, code \in ExitStatuses : ExitEvent(c, code)

Next ==
    \/ \E s \in Shims : ShimStep(s)
    \/ \E q \in Procs : FlagStoreStep(q)
    \/ ListenerStep

Spec == Init /\ [][Next]_vars

\* ------------------------------------------------------------------------
\* The flag store on its own: one caller drives the public methods of
\* ContainerFlagManager on a record file found in any condition.
\* pc = "api": between two calls; pc = "api_err": the call raised.
\* ------------------------------------------------------------------------

\* the caller's container: default / tc
ApiArgv == <<"runc", "--root", "/run/runc/default/", "state", "tc">>

FLAG_NAMES == {"skip_start", "skip_resume", "keep_resources", "exit_code"}

\* second argument of the four getters' _get_flag call
DefaultOf(flag_name) == IF flag_name = "exit_code" THEN None ELSE FALSE

\* values the setters are called with
ValuesOf(flag_name) == IF flag_name = "exit_code" THEN ExitStatuses ELSE BOOLEAN

\* valid records: the flags in any combination, exit_code null or set
FlagDocs ==
    [version : {STATE_VERSION}, skip_start : BOOLEAN, skip_resume : BOOLEAN,
     keep_resources : BOOLEAN, exit_code : {None} \cup ExitStatuses]

\* what the record file may hold when a call begins
RecordChoices ==
    {EmptyFile, PartialFile, ScalarFile, UndecodableFile, GarbageFile}
        \cup {DocFile(doc) : doc \in FlagDocs}

InitFlagStore ==
    /\ config = [c \in Containers |-> NoConfig]
    /\ mounts = [c \in Containers |-> <<>>]
    /\ cwd = [c \in Containers |-> "/"]
    /\ ckpt = [c \in Containers |-> [dir |-> FALSE, dump |-> "none", tar |-> FALSE]]
    /\ upper = [c \in Containers |-> "nomount"]
    /\ work = [c \in Containers |-> FALSE]
    /\ \E present \in BOOLEAN, content \in RecordChoices :
          /\ path = [c \in Containers |-> IF present THEN 1 ELSE 0]
          /\ inode = [i \in Inos |-> IF present /\ i = 1 THEN content ELSE EmptyFile]
    /\ fh = [q \in Procs |-> 0]
    /\ pc = [q \in Procs |-> IF q \in Shims THEN "api" ELSE "idle"]
    /\ op = [q \in Procs |-> NoOp]
    /\ rd = [q \in Procs |-> FALSE]
    /\ wbuf = [q \in Procs |-> _create_initial_flag]
    /\ argv = [s \in Shims |-> ApiArgv]
    /\ trace = [s \in Shims |-> <<>>]
    /\ child = [s \in Shims |-> <<>>]
    /\ res = [s \in Shims |-> NoResult]
    /\ levt = NoEvent
    /\ ninv = 0
    /\ nev = 0
    /\ kept = [c \in Containers |-> FALSE]
    /\ ovl = FALSE
    /\ FnAtRest

\* a call begins: nothing is logged yet
ApiFrame(s) ==
    /\ trace' = [trace EXCEPT ![s] = <<>>]
    /\ UNCHANGED <<envVars, argv, child, res, lsnVars>>
    /\ UNCHANGED <<cntVars, histVars, fnVars>>

\* mutant: create_flag leaves a record that exists alone
CallCreateFlag_if_absent(s) ==
    /\ pc[s] = "api"
    /\ IF has_flag(Cur(s))
       THEN /\ op' = [op EXCEPT ![s] = [NoOp EXCEPT !.kind = "create"]]
            /\ UNCHANGED pc
       ELSE Call(s, "create", "none", FALSE, "api", "api_err", "wopen")
    /\ wbuf' = [wbuf EXCEPT ![s] = _create_initial_flag]
    /\ UNCHANGED <<fsVars, rd>>
    /\ ApiFrame(s)

\* create_flag(namespace, container_id)
CallCreateFlag(s) ==
    /\ pc[s] = "api"
    /\ Call(s, "create", "none", FALSE, "api", "api_err", "wopen")
    /\ wbuf' = [wbuf EXCEPT ![s] = _create_initial_flag]
    /\ UNCHANGED <<fsVars, rd>>
    /\ ApiFrame(s)

\* set_skip_start / set_skip_resume / set_keep_resources / set_exit_code
CallSetFlag(s, flag_name, value) ==
    /\ pc[s] = "api"
    /\ Call(s, "set", flag_name, value, "api", "api_err", "has")
    /\ UNCHANGED <<fsVars, rd, wbuf>>
    /\ ApiFrame(s)

\* get_skip_start / get_skip_resume / get_keep_resources / get_exit_code
CallGetFlag(s, flag_name) ==
    /\ pc[s] = "api"
    /\ Call(s, "get", flag_name, DefaultOf(flag_name), "api", "api_err", "ropen")
    /\ UNCHANGED <<fsVars, rd, wbuf>>
    /\ ApiFrame(s)

\* clear_flag: os.remove, FileNotFoundError ignored
CallClearFlag(s) ==
    /\ pc[s] = "api"
    /\ op' = [op EXCEPT ![s] = [NoOp EXCEPT !.kind = "clear"]]
    /\ Store([path EXCEPT ![Cur(s)] = 0], inode, fh)
    /\ UNCHANGED <<pc, rd, wbuf>>
    /\ ApiFrame(s)

\* the caller catches what the call raised
CallRaised(s) ==
    /\ pc[s] = "api_err"
    /\ pc' = [pc EXCEPT ![s] = "api"]
    /\ UNCHANGED <<fsVars, envVars, callVars, shimVars, lsnVars>>
    /\ UNCHANGED <<cntVars, histVars, fnVars>>

ApiStep(s) ==
    \/ CallCreateFlag(s)
    \/ \E flag_name \in FLAG_NAMES : \E value \in ValuesOf(flag_name) :
          CallSetFlag(s, flag_name, value)
    \/ \E flag_name \in FLAG_NAMES : CallGetFlag(s, flag_name)
    \/ CallClearFlag(s)
    \/ CallRaised(s)
    \/ FsRLockFails(s)

NextFlagStore ==
    \/ \E s \in Shims : ApiStep(s)
    \/ \E s \in Shims : FlagStoreStep(s)

SpecFlagStore == InitFlagStore /\ [][NextFlagStore]_vars

\* ------------------------------------------------------------------------
\* The state directory by file name: create_flag, clear_flag and
\* list_containers of ContainerFlagManager, with namespaces, container ids
\* and file names as sequences of characters.
\* ------------------------------------------------------------------------

\* namespaces and container ids: letters and underscores, a letter at both ends
Names ==
    { n \in UNION { [1..k -> {"a", "_"}] : k \in 1..MaxNameLen } :
          n[1] = "a" /\ n[Len(n)] = "a" }

JsonExt == <<".", "j", "s", "o", "n">>

\* os.path.join(self.state_dir, f"{namespace}_{container_id}.json"), without
\* the directory
FlagFileName(namespace, container_id) == namespace \o <<"_">> \o container_id \o JsonExt

\* str.endswith
EndsWith(str, suffix) ==
    Len(str) >= Len(suffix) /\ SubSeq(str, Len(str) - Len(suffix) + 1, Len(str)) = suffix

\* str.split(sep, 1): split at the first separator only
SplitOnce(str, sep) ==
    IF \E i \in 1..Len(str) : str[i] = sep
    THEN LET i == CHOOSE k \in 1..Len(str) :
                      str[k] = sep /\ \A j \in 1..(k - 1) : str[j] # sep
         IN  <<SubSeq(str, 1, i - 1), SubSeq(str, i + 1, Len(str))>>
    ELSE <<str>>

\* list_containers: the pairs read off the file names, in no particular order
list_containers(names) ==
    { <<SplitOnce(SubSeq(f, 1, Len(f) - 5), "_")[1], SplitOnce(SubSeq(f, 1, Len(f) - 5), "_")[2]>> :
          f \in { g \in names : EndsWith(g, JsonExt)
                                 /\ Len(SplitOnce(SubSeq(g, 1, Len(g) - 5), "_")) = 2 } }

InitListing ==
    /\ Init
    /\ \A c \in Containers : ~config[c].exists /\ ~ckpt[c].dir /\ upper[c] = "nomount"

\* create_flag(namespace, container_id): the file is there afterwards
ListingCreate(namespace, container_id) ==
    /\ Cardinality(dirents \cup {FlagFileName(namespace, container_id)}) <= MaxRecords
    /\ dirents' = dirents \cup {FlagFileName(namespace, container_id)}
    /\ created' = created \cup {<<namespace, container_id>>}
    /\ fnArgs' = <<"create_flag", namespace, container_id>>
    /\ fnRet' = <<>>
    /\ UNCHANGED sysVars

\* clear_flag(namespace, container_id): os.remove of the file; the pairs
\* whose record that file was have none any more
ListingClear(namespace, container_id) ==
    /\ dirents' = dirents \ {FlagFileName(namespace, container_id)}
    /\ created' = { p \in created :
                      FlagFileName(p[1], p[2]) # FlagFileName(namespace, container_id) }
    /\ fnArgs' = <<"clear_flag", namespace, container_id>>
    /\ fnRet' = <<>>
    /\ UNCHANGED sysVars

ListingList ==
    /\ fnArgs' = <<"list_containers">>
    /\ fnRet' = list_containers(dirents)
    /\ UNCHANGED <<dirents, created>>
    /\ UNCHANGED sysVars

NextListing ==
    \/ \E namespace \in Names, container_id \in Names : ListingCreate(namespace, container_id)
    \/ \E namespace \in Names, container_id \in Names : ListingClear(namespace, container_id)
    \/ ListingList

SpecListing == InitListing /\ [][NextListing]_vars

\* ------------------------------------------------------------------------
\* The event listener on its own: _process_event on the lines of
\* "ctr events", followed by set_exit_code on a record file found in any
\* condition, while a delete invocation may remove the file at any moment.
\* ------------------------------------------------------------------------

\* exit_status values of the events, None when the field is absent
EventStatuses == ExitStatuses \cup {None}

\* The lines read from "ctr events", as what str.split and json.loads make of
\* them. fmt = "ctr": stamp tokens of timestamp, then namespace, topic and a
\* body starting with "{" (json = FALSE: json.loads raises JSONDecodeError;
\* container_id = "": no such key). fmt = "text": the key=value form of the
\* fallback parser, at least five tokens, no "{" (namespace = "" or
\* container_id = "": no such token; exit: the line contains "event=exit";
\* exit_status: the exit-code= token).
EventLines ==
    [fmt : {"ctr"}, stamp : {1, 4}, namespace : {"default", "other"},
     topic : {"/tasks/exit", "/tasks/start"}, json : BOOLEAN,
     container_id : {"tc", ""}, exit : {FALSE}, exit_status : EventStatuses]
    \cup
    [fmt : {"text"}, stamp : {1}, namespace : {"default", ""},
     topic : {""}, json : {FALSE},
     container_id : {"tc", ""}, exit : BOOLEAN, exit_status : EventStatuses]

NoCallOut == [call |-> FALSE, namespace |-> "", container_id |-> "", exit_code |-> 0]

\* the fallback text parser of _process_event (lines 119-169)
TextFallback(line) ==
    IF /\ line.fmt = "text"
       /\ line.namespace # "" /\ line.container_id # ""
       /\ line.exit
       /\ has_state(<<line.namespace, line.container_id>>)
    THEN [call |-> TRUE, namespace |-> line.namespace, container_id |-> line.container_id,
          exit_code |-> IF line.exit_status = None THEN 0 ELSE line.exit_status]
    ELSE NoCallOut

\* _process_event: the set_exit_code call it makes, if any
_process_event(line) ==
    IF /\ line.fmt = "ctr"
       /\ line.stamp + 2 >= 4
       /\ line.topic = "/tasks/exit"
       /\ line.json
       /\ line.container_id # ""
       /\ has_state(<<line.namespace, line.container_id>>)
    THEN [call |-> TRUE, namespace |-> line.namespace, container_id |-> line.container_id,
          exit_code |-> IF line.exit_status = None THEN 0 ELSE line.exit_status]
    ELSE TextFallback(line)

InitListener ==
    /\ config = [c \in Containers |-> NoConfig]
    /\ mounts = [c \in Containers |-> <<>>]
    /\ cwd = [c \in Containers |-> "/"]
    /\ ckpt = [c \in Containers |-> [dir |-> FALSE, dump |-> "none", tar |-> FALSE]]
    /\ upper = [c \in Containers |-> "nomount"]
    /\ work = [c \in Containers |-> FALSE]
    /\ \E present \in BOOLEAN, content \in RecordChoices :
          /\ path = [c \in Containers |-> IF present THEN 1 ELSE 0]
          /\ inode = [i \in Inos |-> IF present /\ i = 1 THEN content ELSE EmptyFile]
    /\ fh = [q \in Procs |-> 0]
    /\ pc = [q \in Procs |-> "idle"]
    /\ op = [q \in Procs |-> NoOp]
    /\ rd = [q \in Procs |-> FALSE]
    /\ wbuf = [q \in Procs |-> _create_initial_flag]
    /\ argv = [s \in Shims |-> <<>>]
    /\ trace = [s \in Shims |-> <<>>]
    /\ child = [s \in Shims |-> <<>>]
    /\ res = [s \in Shims |-> NoResult]
    /\ levt = NoEvent
    /\ ninv = 0
    /\ nev = 0
    /\ kept = [c \in Containers |-> FALSE]
    /\ ovl = FALSE
    /\ FnAtRest

\* readline returned line and _process_event ran up to its set_exit_code call
ReceiveLine(line) ==
    /\ pc[Listener] = "idle"
    /\ fnArgs' = line
    /\ LET out == _process_event(line)
       IN  IF out.call
           THEN /\ levt' = <<out.namespace, out.container_id>>
                /\ pc' = [pc EXCEPT ![Listener] = "has"]
                /\ op' = [op EXCEPT ![Listener] =
                            [kind |-> "lset", field |-> "exit_code", value |-> out.exit_code,
                             k |-> "idle", kfail |-> "idle"]]
           ELSE UNCHANGED <<levt, pc, op>>
    /\ UNCHANGED <<fsVars, envVars, rd, wbuf, shimVars>>
    /\ UNCHANGED <<cntVars, histVars, fnRet, dirents, created>>

\* clear_flag of a delete invocation running beside the listener: os.remove
RecordRemoved(c) ==
    /\ path[c] # 0
    /\ Store([path EXCEPT ![c] = 0], inode, fh)
    /\ UNCHANGED <<envVars, pc, callVars, shimVars, lsnVars>>
    /\ UNCHANGED <<cntVars, histVars, fnVars>>

NextListener ==
    \/ \E line \in EventLines : ReceiveLine(line)
    \/ FlagStoreStep(Listener)
    \/ \E c \in Containers : RecordRemoved(c)

SpecListener == InitListener /\ [][NextListener]_vars

\* ------------------------------------------------------------------------
\* Single functions, each called once on arguments drawn from a bounded set
\* ------------------------------------------------------------------------

\* tokens of the argv given to parse_command
ParserTokens ==
    {"--root", "--debug", "/run/runc/k8s", "/run/runc/k8s/", "/", "", "ns", "start", "tc"}

ParserArgvs ==
    { <<"runc">> \o t : t \in UNION { [1..k -> ParserTokens] : k \in 0..MaxArgs } }

\* entries of process.env: a variable may be there with an empty value
EnvEntries ==
    { <<"ARCH_SHAREDFS_HOST_PATH", "/shared">>, <<"ARCH_SHAREDFS_HOST_PATH", "">>,
      <<"ARCH_CHECKPOINT_HOST_PATH", "/host">>, <<"ARCH_CHECKPOINT_HOST_PATH", "">>,
      <<"ARCH_ENABLE", "1">> }

\* the config.json a container can have, or none
EnvConfigs ==
    { [exists |-> FALSE, env |-> <<>>] } \cup
    { [exists |-> TRUE, env |-> e] : e \in UNION { [1..k -> EnvEntries] : k \in 0..MaxEnv } }

PathNamespaces == {"default", "k8s"}

\* the dump.log of a checkpoint directory, or none
DumpLogs ==
    { [exists |-> FALSE, lines |-> <<>>] } \cup
    { [exists |-> TRUE, lines |-> l] :
          l \in UNION { [1..k -> {"", "success", "other"}] : k \in 0..MaxLines } }

\* what a path names: nothing, a file without or with execute permission,
\* or a directory the process may search
PathKinds == {"missing", "plain", "executable", "directory"}

os_path_exists(kind) == kind # "missing"

\* os.access(path, os.X_OK): for a directory X_OK is the search permission
os_access_X_OK(kind) == kind \in {"executable", "directory"}

\* os.environ.get(ENV_REAL_RUNC_CMD): None, "" or a path
RuncEnvValues ==
    { [set |-> FALSE, value |-> "", kind |-> "missing"],
      [set |-> TRUE, value |-> "", kind |-> "missing"] } \cup
    { [set |-> TRUE, value |-> "/env/runc", kind |-> k] : k \in PathKinds }

\* a line of the config file: ARCH_REAL_RUNC_CMD=<path> or something else
ConfLineChoices ==
    { [key |-> FALSE, value |-> "", kind |-> "missing"] } \cup
    { [key |-> TRUE, value |-> v, kind |-> k] : v \in {"/conf/runc", "/opt/runc"}, k \in PathKinds }

\* the config file: absent, one that cannot be read, or its lines
ConfFiles ==
    { [exists |-> FALSE, readable |-> FALSE, lines |-> <<>>],
      [exists |-> TRUE, readable |-> FALSE, lines |-> <<>>] } \cup
    { [exists |-> TRUE, readable |-> TRUE, lines |-> l] :
          l \in UNION { [1..k -> ConfLineChoices] : k \in 0..MaxConfLines } }

\* what the handler's constructor ends with when no path resolves
SystemExit1 == "sys.exit(1)"

\* the loop over the lines of the config file
RECURSIVE ConfScan(_)
ConfScan(lines) ==
    IF lines = <<>> THEN SystemExit1
    ELSE LET line == Head(lines)
         IN  IF line.key /\ os_path_exists(line.kind) /\ os_access_X_OK(line.kind)
             THEN line.value
             ELSE ConfScan(Tail(lines))

_get_real_runc_cmd(env_cmd, conf) ==
    IF env_cmd.set /\ env_cmd.value # "" /\ os_path_exists(env_cmd.kind)
       /\ os_access_X_OK(env_cmd.kind)
    THEN env_cmd.value
    ELSE IF conf.exists /\ conf.readable THEN ConfScan(conf.lines)
    ELSE SystemExit1

\* argv pieces for the command builders: an option with its value, or a flag
GlobalGroups == { <<>>, <<"--debug">>, <<"--root", "/run/runc/k8s">>,
                  <<"--debug", "--root", "/run/runc/k8s">> }

CheckpointGroups == { <<"--image-path", "/old">>, <<"--work-path", "/w">>,
                      <<"--leave-running">>, <<"--tcp-established">> }

CreateGroups == { <<"--bundle", "/b">>, <<"--detach">>, <<"--no-pivot">> }

RECURSIVE Flatten(_)
Flatten(groups) == IF groups = <<>> THEN <<>> ELSE Head(groups) \o Flatten(Tail(groups))

\* sys.argv of an invocation with these global options and subcommand options
BuilderArgv(globals, sub, groups) ==
    <<"runc">> \o globals \o <<sub>> \o Flatten(groups) \o <<"tc">>

BuilderCalls ==
    { <<"_build_checkpoint_command", g, o>> :
          g \in GlobalGroups,
          o \in UNION { [1..k -> CheckpointGroups] : k \in 0..MaxOpts } } \cup
    { <<"_build_restore_command", g, o>> :
          g \in GlobalGroups,
          o \in UNION { [1..k -> CreateGroups] : k \in 0..MaxOpts } }

\* the checkpoint path resolved for the container of the builder calls
BuilderCheckpointPath == "/var/tmp/arch/checkpoint/k8s/tc"

\* ---- get_upperdir on the output of mount ----

\* container ids of the mounts, spelled out: one id is the beginning of
\* another and the end of a third
MountIds == { <<"x">>, <<"x", "1">>, <<"1", "x">> }

UpperDirs == {"/snap/7/fs", "/snap/8/fs"}

\* A line of the output of mount: the rootfs of a container (an overlay with
\* its upperdir option) or its shm (a tmpfs)
MountEntries ==
    { [fstype |-> "overlay", id |-> i, upperdir |-> u] : i \in MountIds, u \in UpperDirs } \cup
    { [fstype |-> "tmpfs", id |-> i, upperdir |-> ""] : i \in MountIds }

\* the outputs of mount: up to MaxMounts lines
MountOutputs == UNION { [1..n -> MountEntries] : n \in 0..MaxMounts }

\* The text of a line. The id is spelled character by character; the text
\* around it is kept in whole pieces, which hold none of the characters
\* of the ids.
MountLine(m) ==
    IF m.fstype = "overlay"
    THEN <<"overlay on /run/containerd/io.containerd.runtime.v2.task/default/">> \o m.id
           \o <<"/rootfs type overlay (rw,upperdir=", m.upperdir, ")">>
    ELSE <<"shm on /run/containerd/io.containerd.grpc.v2.cri/sandboxes/">> \o m.id
           \o <<"/shm type tmpfs (rw)">>

\* Python's "needle in text" on the spelled text
StrIn(needle, text) ==
    \E k \in 0..(Len(text) - Len(needle)) :
        \A j \in 1..Len(needle) : text[k + j] = needle[j]

\* pattern.search(line): the value of the upperdir option, "" when there is none
UpperdirOption(m) == IF m.fstype = "overlay" THEN m.upperdir ELSE ""

\* get_upperdir(container_id, namespace) on the output of mount: the
\* upperdir of the first line that holds "overlay" and container_id and an
\* upperdir option; "" stands for None
RECURSIVE get_upperdir_from_mount(_, _)
get_upperdir_from_mount(output, container_id) ==
    IF output = <<>> THEN ""
    ELSE LET line == Head(output)
         IN  IF /\ line.fstype = "overlay"
                /\ StrIn(container_id, MountLine(line))
                /\ UpperdirOption(line) # ""
             THEN UpperdirOption(line)
             ELSE get_upperdir_from_mount(Tail(output), container_id)

FnCalls ==
    { <<"get_upperdir", output, id>> : output \in MountOutputs, id \in MountIds } \cup
    { <<"parse_command", args>> : args \in ParserArgvs } \cup
    { <<"get_checkpoint_path", cfg, "tc", ns>> : cfg \in EnvConfigs, ns \in PathNamespaces } \cup
    { <<"validate_checkpoint", log>> : log \in DumpLogs } \cup
    { <<"_get_real_runc_cmd", e, f>> : e \in RuncEnvValues, f \in ConfFiles } \cup
    BuilderCalls

InitFunctions ==
    /\ Init
    /\ \A c \in Containers : ~config[c].exists /\ ~ckpt[c].dir /\ upper[c] = "nomount"

\* the call to be studied is made
FnCall(call) ==
    /\ fnArgs = <<>>
    /\ fnArgs' = call
    /\ UNCHANGED <<fnRet, dirents, created>>
    /\ UNCHANGED sysVars

\* RuncCommandParser.parse_command(args)
FnParseCommand ==
    /\ fnArgs # <<>> /\ fnArgs[1] = "parse_command"
    /\ fnRet = <<>>
    /\ fnRet' = parse_command(fnArgs[2])
    /\ UNCHANGED <<fnArgs, dirents, created>>
    /\ UNCHANGED sysVars

\* ContainerConfigHandler.get_checkpoint_path(container_id, namespace)
FnGetCheckpointPath ==
    /\ fnArgs # <<>> /\ fnArgs[1] = "get_checkpoint_path"
    /\ fnRet = <<>>
    /\ fnRet' = <<get_checkpoint_path(fnArgs[2], fnArgs[3], fnArgs[4])>>
    /\ UNCHANGED <<fnArgs, dirents, created>>
    /\ UNCHANGED sysVars

\* CheckpointHandler.validate_checkpoint(checkpoint_path)
FnValidateCheckpoint ==
    /\ fnArgs # <<>> /\ fnArgs[1] = "validate_checkpoint"
    /\ fnRet = <<>>
    /\ fnRet' = <<validate_checkpoint_log(fnArgs[2])>>
    /\ UNCHANGED <<fnArgs, dirents, created>>
    /\ UNCHANGED sysVars

\* RuncHandler.__init__ up to the return of _get_real_runc_cmd: the parser
\* object is made and nothing else is done before
FnGetRealRuncCmd ==
    /\ fnArgs # <<>> /\ fnArgs[1] = "_get_real_runc_cmd"
    /\ fnRet = <<>>
    /\ fnRet' = <<_get_real_runc_cmd(fnArgs[2], fnArgs[3])>>
    /\ UNCHANGED <<fnArgs, dirents, created>>
    /\ UNCHANGED sysVars

\* _handle_checkpoint_command building its command from the parsed argv
FnBuildCheckpointCommand ==
    /\ fnArgs # <<>> /\ fnArgs[1] = "_build_checkpoint_command"
    /\ fnRet = <<>>
    /\ LET p == parse_command(BuilderArgv(fnArgs[2], "checkpoint", fnArgs[3]))
       IN  fnRet' = <<_build_checkpoint_command(p.container_id, p.global_options,
                                                p.subcommand_options, BuilderCheckpointPath)>>
    /\ UNCHANGED <<fnArgs, dirents, created>>
    /\ UNCHANGED sysVars

\* _perform_restore_process building its command from the parsed argv
FnBuildRestoreCommand ==
    /\ fnArgs # <<>> /\ fnArgs[1] = "_build_restore_command"
    /\ fnRet = <<>>
    /\ LET p == parse_command(BuilderArgv(fnArgs[2], "create", fnArgs[3]))
       IN  fnRet' = <<_build_restore_command(p.container_id, p.global_options,
                                             p.subcommand_options, BuilderCheckpointPath)>>
    /\ UNCHANGED <<fnArgs, dirents, created>>
    /\ UNCHANGED sysVars

\* ContainerFilesystemHandler.get_upperdir(container_id, namespace) with
\* mount printing fnArgs[2]
FnGetUpperdir ==
    /\ fnArgs # <<>> /\ fnArgs[1] = "get_upperdir"
    /\ fnRet = <<>>
    /\ fnRet' = <<get_upperdir_from_mount(fnArgs[2], fnArgs[3])>>
    /\ UNCHANGED <<fnArgs, dirents, created>>
    /\ UNCHANGED sysVars

\* the calls that can be made now: one call is studied in a behaviour
FnCallsOpen == IF fnArgs = <<>> THEN FnCalls ELSE {}

NextFunctions ==
    \/ \E call \in FnCallsOpen : FnCall(call)
    \/ FnParseCommand
    \/ FnGetCheckpointPath
    \/ FnValidateCheckpoint
    \/ FnGetRealRuncCmd
    \/ FnBuildCheckpointCommand
    \/ FnBuildRestoreCommand
    \/ FnGetUpperdir

SpecFunctions == InitFunctions /\ [][NextFunctions]_vars

\* ------------------------------------------------------------------------
\* Vocabulary of the properties
\* ------------------------------------------------------------------------

\* the OCI config of c carries ARCH_ENABLE=1
OptIn(c) ==
    /\ c \in Containers
    /\ config[c].exists
    /\ \E j \in 1..Len(config[c].env) : config[c].env[j] = <<"ARCH_ENABLE", "1">>

\* the argv names one of the five intercepted subcommands
Intercepted(a) ==
    \E i \in 1..Len(a) : a[i] \in {"create", "start", "checkpoint", "resume", "delete"}

\* the container an argv is about
TargetOf(a) == <<parse_command(a).namespace, parse_command(a).container_id>>

\* result r is _execute_command(args): the process was replaced by the real
\* runtime on args (or execvp itself failed and 1 was returned)
HandedToRuntime(r, args) == r.kind \in {"exec", "execfail"} /\ r.cmd = args

\* the record file of c exists and holds one complete document
ValidRecord(c) == c \in Containers /\ path[c] # 0 /\ inode[path[c]].kind = "doc"

RecordOf(c) == inode[path[c]].doc

InTrace(s, step) == \E i \in 1..Len(trace[s]) : trace[s][i] = step

TimesInTrace(s, step) == Cardinality({i \in 1..Len(trace[s]) : trace[s][i] = step})

\* invocation s has just ended and was for subcommand sub
Ended(s, sub) == pc[s] = "done" /\ ParsedOf(s).subcommand = sub

\* a new invocation starts in this step
Starts(s) == pc[s] = "idle" /\ pc'[s] # "idle"

\* ------------------------------------------------------------------------
\* Properties
\* ------------------------------------------------------------------------

\* C1: for a container that is not opted in, every invocation of an
\* intercepted subcommand ends at once in _execute_command(argv[1:]) with no
\* archive step performed, and no step ever creates a flag record for the
\* container or changes its mounts, cwd, checkpoint, upperdir or work directory.
C1_NotOptedInPassThrough ==
    [][\A c \in Containers :
          ~OptIn(c) =>
             /\ (path[c] = 0 => path'[c] = 0)
             /\ mounts'[c] = mounts[c] /\ cwd'[c] = cwd[c] /\ ckpt'[c] = ckpt[c]
             /\ upper'[c] = upper[c] /\ work'[c] = work[c]
             /\ \A s \in Shims :
                   (Starts(s) /\ Intercepted(argv'[s]) /\ TargetOf(argv'[s]) = c) =>
                      /\ pc'[s] = "done"
                      /\ HandedToRuntime(res'[s], Tail(argv'[s]))
                      /\ trace'[s] = <<>>]_vars

\* a second invocation of an intercepted subcommand for a container that is
\* not opted in has been handed to the real runtime
C1_Witness ==
    \E s \in Shims :
        /\ pc[s] = "done" /\ ninv = 2
        /\ Intercepted(argv[s]) /\ TargetOf(argv[s]) \in Containers /\ ~OptIn(TargetOf(argv[s]))
        /\ res[s].kind = "exec" /\ res[s].cmd = Tail(argv[s])

\* C2: an invocation whose subcommand is not one of create, start,
\* checkpoint, resume, delete (the empty subcommand included) ends at once in
\* _execute_command(argv[1:]) and leaves the flag store, the OCI config and the
\* checkpoint, upperdir and work directories unchanged, opted in or not.
C2_OtherSubcommandsPassThrough ==
    [][\A s \in Shims :
          (Starts(s) /\ ~Intercepted(argv'[s])) =>
             /\ pc'[s] = "done"
             /\ HandedToRuntime(res'[s], Tail(argv'[s]))
             /\ UNCHANGED <<path, inode, fh, config, mounts, cwd, ckpt, upper, work>>]_vars

\* "state" for an opted-in container that has a flag record was handed to the
\* real runtime
C2_Witness ==
    \E s \in Shims :
        /\ pc[s] = "done" /\ ~Intercepted(argv[s])
        /\ ParsedOf(s).subcommand = "state"
        /\ OptIn(Cur(s)) /\ ValidRecord(Cur(s))
        /\ res[s].kind = "exec" /\ res[s].cmd = Tail(argv[s])

\* C3: in every reachable state, the record of an opted-in container never
\* has skip_start and skip_resume both true.
C3_SkipFlagsExclusive ==
    \A c \in Containers :
        (OptIn(c) /\ ValidRecord(c)) =>
            ~(RecordOf(c).skip_start /\ RecordOf(c).skip_resume)

\* C4 as stated, at the point the claim names: keep_resources = true implies
\* skip_resume = true in the record, in particular when a resume has consumed
\* the skip_resume latch (returned 0) after a successful checkpoint.
C4_KeepImpliesSkipResume ==
    \A s \in Shims :
        (Ended(s, "resume") /\ res[s].kind = "ret" /\ res[s].status = 0 /\ ValidRecord(Cur(s))) =>
            (RecordOf(Cur(s)).keep_resources => RecordOf(Cur(s)).skip_resume)

\* C4 amended: keep_resources = true in a record implies that a checkpoint
\* invocation for the container saved the archive and called
\* set_keep_resources(True) earlier; skip_resume may be false by then.
C4_KeepOnlyAfterCheckpoint ==
    \A c \in Containers :
        (ValidRecord(c) /\ RecordOf(c).keep_resources) => kept[c]

\* a checkpoint saved the archive and set keep_resources, a later invocation
\* cleared skip_resume, and the record holds keep_resources = true with
\* skip_resume = false
C4_Witness ==
    \E c \in Containers :
        /\ ValidRecord(c) /\ kept[c]
        /\ RecordOf(c).keep_resources /\ ~RecordOf(c).skip_resume
        /\ \E s \in Shims : Cur(s) = c /\ Ended(s, "resume") /\ res[s].kind = "ret" /\ res[s].status = 0

\* C5: every read of a record file (json.load in _read_flag / _read_state)
\* finds one complete document in it, never an empty or partly overwritten file.
C5_NoTornRead ==
    [][\A q \in Procs :
          (pc[q] = "rread" /\ pc'[q] # "rread") => inode[fh[q]].kind = "doc"]_vars

\* C6: when a _set_flag call of the shim and the listener's set_exit_code for
\* the same container were in progress at the same time and both have
\* returned, the record is valid and holds the shim's flag value and the
\* listener's exit_code.
C6_ConcurrentUpdatesBothKept ==
    \A s \in Shims :
        (pc[s] \in {"ret0", "ckpt_set2", "ckpt_exec"} /\ pc[Listener] = "idle" /\ ovl) =>
            /\ ValidRecord(Cur(s))
            /\ RecordOf(Cur(s))[op[s].field] = op[s].value
            /\ RecordOf(Cur(s)).exit_code \in ExitStatuses

\* C7: when create returns 0, the record has skip_start = true at that moment
\* (and nothing was handed to the real runtime in place of the shim).
C7_CreateReturnsZeroLatched ==
    \A s \in Shims :
        (Ended(s, "create") /\ res[s].kind = "ret" /\ res[s].status = 0) =>
            /\ ValidRecord(Cur(s))
            /\ RecordOf(Cur(s)).skip_start

\* C8: skip_start is a one-shot latch. A start that ends without an engine
\* error either returned 0, and then the record has skip_start = false, or was
\* handed to the real runtime with the original argv, and then no skip_start
\* latch was pending (the start after a successful restore is never the one
\* handed to the runtime).
C8_SkipStartOneShot ==
    \A s \in Shims :
        (Ended(s, "start") /\ OptIn(Cur(s)) /\ ~InTrace(s, "error")) =>
            /\ res[s].kind = "ret" =>
                  /\ res[s].status = 0
                  /\ ValidRecord(Cur(s))
                  /\ ~RecordOf(Cur(s)).skip_start
            /\ res[s].kind # "ret" =>
                  /\ HandedToRuntime(res[s], Tail(argv[s]))
                  /\ ~(ValidRecord(Cur(s)) /\ RecordOf(Cur(s)).skip_start)

\* C9: skip_resume is a one-shot latch. A resume that ends without an engine
\* error either returned 0, and then the record has skip_resume = false, or
\* was handed to the real runtime with the original argv, and then no
\* skip_resume latch was pending.
C9_SkipResumeOneShot ==
    \A s \in Shims :
        (Ended(s, "resume") /\ OptIn(Cur(s)) /\ ~InTrace(s, "error")) =>
            /\ res[s].kind = "ret" =>
                  /\ res[s].status = 0
                  /\ ValidRecord(Cur(s))
                  /\ ~RecordOf(Cur(s)).skip_resume
            /\ res[s].kind # "ret" =>
                  /\ HandedToRuntime(res[s], Tail(argv[s]))
                  /\ ~(ValidRecord(Cur(s)) /\ RecordOf(Cur(s)).skip_resume)

\* C10: when create restored the archive and the restore child exited
\* non-zero, rollback was called exactly once, the original create was handed
\* to the real runtime and the record exists with skip_start = false.
C10_ChildFailureRollsBack ==
    \A s \in Shims :
        (Ended(s, "create") /\ InTrace(s, "restore_failed")) =>
            /\ TimesInTrace(s, "rollback") = 1
            /\ HandedToRuntime(res[s], Tail(argv[s]))
            /\ ValidRecord(Cur(s))
            /\ ~RecordOf(Cur(s)).skip_start

\* C11: a checkpoint whose paths resolve and whose save succeeds has
\* skip_resume = true and keep_resources = true in the record when the
\* checkpoint command is handed to the real runtime; a checkpoint whose path
\* resolution or save fails ends in that step with the flag store unchanged
\* and the original argv[1:] handed to the real runtime.
C11_CheckpointSetsBothFlags ==
    [][\A s \in Shims :
          /\ pc[s] = "ckpt_exec" =>
                /\ ValidRecord(Cur(s))
                /\ RecordOf(Cur(s)).skip_resume
                /\ RecordOf(Cur(s)).keep_resources
          /\ (pc[s] = "ckpt_work" /\ pc'[s] = "done") =>
                /\ UNCHANGED <<path, inode, fh>>
                /\ HandedToRuntime(res'[s], Tail(argv[s]))]_vars

\* C12: when delete acts on a record that has keep_resources = true, the
\* checkpoint directory and the work directory are left as they are, the
\* record is removed and the original delete is handed to the real runtime.
C12_DeleteKeepsResources ==
    [][\A s \in Shims :
          (/\ pc[s] = "delete_got" /\ pc'[s] = "done"
           /\ ValidRecord(Cur(s)) /\ RecordOf(Cur(s)).keep_resources) =>
             /\ ckpt'[Cur(s)] = ckpt[Cur(s)]
             /\ work'[Cur(s)] = work[Cur(s)]
             /\ path'[Cur(s)] = 0
             /\ HandedToRuntime(res'[s], Tail(argv[s]))]_vars

StepFailed(s) ==
    \/ \E mark \in {"no_paths", "rollback", "restore_failed", "save_failed",
                    "set_skipped", "error"} : InTrace(s, mark)
    \/ /\ Len(trace[s]) > 0
       /\ trace[s][Len(trace[s])] \in {"add_bind_mount", "validate"}

\* C15: an intercepted invocation for an opted-in container in which a step
\* after the opt-in check failed or raised ends with the original argv[1:]
\* handed to the real runtime.
C15_FailureFallsBackToOriginal ==
    \A s \in Shims :
        (/\ pc[s] = "done" /\ Intercepted(argv[s]) /\ OptIn(Cur(s))
         /\ StepFailed(s)) =>
            HandedToRuntime(res[s], Tail(argv[s]))

\* the checkpoint directory of c is missing or its dump.log does not report success
NoValidCheckpoint(c) == ~ckpt[c].dir \/ ckpt[c].dump # "ok"

\* C16: with no exit event and no flag-store error, the first create for an
\* opted-in container (no record yet) that has no valid checkpoint hands the
\* original create to the real runtime and leaves the record Live: version
\* "1.0", the three flags false, exit_code null; a start that comes as the
\* second invocation (after that create in particular) is handed to the real
\* runtime with its original arguments.
C16_FirstCreateLeavesLive ==
    \A s \in Shims :
        LET c == Cur(s)
        IN  (/\ pc[s] = "done" /\ OptIn(c) /\ NoValidCheckpoint(c)
             /\ nev = 0 /\ ~InTrace(s, "error")) =>
                /\ (ParsedOf(s).subcommand = "create" /\ ninv = 1) =>
                      /\ HandedToRuntime(res[s], Tail(argv[s]))
                      /\ ValidRecord(c)
                      /\ RecordOf(c) = [version |-> "1.0", skip_start |-> FALSE,
                                        skip_resume |-> FALSE, keep_resources |-> FALSE,
                                        exit_code |-> None]
                /\ (ParsedOf(s).subcommand = "start" /\ ninv = 2) =>
                      HandedToRuntime(res[s], Tail(argv[s]))

\* the start that followed the first create was handed to the real runtime
\* and the record is Live
C16_Witness ==
    \E s \in Shims :
        /\ Ended(s, "start") /\ OptIn(Cur(s)) /\ NoValidCheckpoint(Cur(s))
        /\ ninv = 2 /\ nev = 0
        /\ res[s].kind = "exec" /\ res[s].cmd = Tail(argv[s])
        /\ ValidRecord(Cur(s)) /\ ~RecordOf(Cur(s)).skip_start
        /\ RecordOf(Cur(s)).exit_code = None

\* C17: a flag record that does not exist (never created, or deleted) comes
\* into existence only by a step of a runtime invocation on that container;
\* the listener never brings a record back.
C17_ListenerNeverResurrects ==
    [][\A c \in Containers :
          (path[c] = 0 /\ path'[c] # 0) =>
              \E s \in Shims : Cur(s) = c /\ pc[s] = "wopen" /\ pc'[s] # "wopen"]_vars

\* the record file of c holds the same bytes before and after the step
RecordFileUnchanged(c) ==
    /\ (path'[c] = 0) = (path[c] = 0)
    /\ path[c] # 0 => inode'[path'[c]] = inode[path[c]]

\* C18: create_flag, once its open succeeded, returns normally, and whenever
\* it returns (other than by raising) the record is a freshly initialised one (version "1.0",
\* the three flags false, exit_code null), whatever the file held before;
\* hence two consecutive calls leave equal records (last_updated is not part
\* of the modelled record).
C18_CreateFlagResets ==
    [][\A s \in Shims :
          /\ (op[s].kind = "create" /\ pc[s] = "wclose" /\ pc'[s] # "wclose") =>
                pc'[s] = "api"
          /\ (op'[s].kind = "create" /\ pc'[s] = "api" /\ pc[s] # "api_err") =>
                /\ path'[Cur(s)] # 0
                /\ inode'[path'[Cur(s)]] =
                       DocFile([version |-> "1.0", skip_start |-> FALSE, skip_resume |-> FALSE,
                                keep_resources |-> FALSE, exit_code |-> None])]_vars

\* create_flag is under way on a record that has every flag set and an exit code
C18_Witness ==
    \E s \in Shims :
        /\ pc[s] = "wopen" /\ op[s].kind = "create"
        /\ ValidRecord(Cur(s))
        /\ RecordOf(Cur(s)).skip_start /\ RecordOf(Cur(s)).skip_resume
        /\ RecordOf(Cur(s)).keep_resources /\ RecordOf(Cur(s)).exit_code = 137

\* C19: no step of a getter changes the record file or raises, and a getter
\* that finds the record missing, not parseable, lacking a field or not
\* lockable returns its default (false, or null for exit_code).
C19_GettersReturnDefault ==
    [][\A s \in Shims :
          (op[s].kind = "get" /\ pc[s] \in {"ropen", "rread"} /\ pc'[s] # pc[s]) =>
              /\ RecordFileUnchanged(Cur(s))
              /\ pc'[s] # "api_err"
              /\ (pc'[s] = "api" /\ (~ValidRecord(Cur(s)) \/ InTrace(s, "lock_failed")'))
                    => rd'[s] = DefaultOf(op[s].field)]_vars

\* C20: a setter called on a container without a record returns without
\* raising and without creating the file, and a getter called on a container
\* without a record returns its default and creates nothing either.
C20_SettersNeedRecord ==
    [][\A s \in Shims :
          (/\ ~has_flag(Cur(s))
           /\ \/ op[s].kind = "set" /\ pc[s] = "has"
              \/ op[s].kind = "get" /\ pc[s] = "ropen"
           /\ pc'[s] # pc[s]) =>
              /\ pc'[s] = "api"
              /\ UNCHANGED <<path, inode>>
              /\ ~has_flag(Cur(s))'
              /\ op[s].kind = "get" => rd'[s] = DefaultOf(op[s].field)]_vars

\* set_exit_code has returned with its warning, there is still no record
C20_Witness ==
    \E s \in Shims :
        /\ pc[s] = "api" /\ op[s].kind = "set" /\ op[s].field = "exit_code"
        /\ InTrace(s, "set_skipped")
        /\ ~has_flag(Cur(s))

\* C21: what list_containers returned is exactly the set of pairs that were
\* passed to create_flag and whose record has not been cleared since.
C21_ListIsWhatWasCreated ==
    fnArgs = <<"list_containers">> => fnRet = created

\* the line names the topic /tasks/exit in the format "ctr events" prints
\* (four tokens of timestamp), with a JSON body that parses and names a container
ExitLine(line) ==
    /\ line.fmt = "ctr" /\ line.stamp = 4
    /\ line.topic = "/tasks/exit" /\ line.json /\ line.container_id # ""

\* C22: on a /tasks/exit line the listener starts set_exit_code(namespace,
\* container_id, exit_status or 0) if and only if the record exists; no step
\* of the listener creates a record file; a line with another topic or with
\* a body that does not parse leaves the store and the listener as they are.
C22_ExitEventsOnly ==
    [][/\ (pc[Listener] = "idle" /\ fnArgs' # fnArgs /\ fnArgs'.fmt = "ctr") =>
             IF ExitLine(fnArgs') /\ has_state(<<fnArgs'.namespace, fnArgs'.container_id>>)
             THEN /\ pc'[Listener] = "has"
                  /\ levt' = <<fnArgs'.namespace, fnArgs'.container_id>>
                  /\ op'[Listener].value =
                        IF fnArgs'.exit_status = None THEN 0 ELSE fnArgs'.exit_status
             ELSE (fnArgs'.stamp = 4 \/ ~ExitLine([fnArgs' EXCEPT !.stamp = 4])) =>
                      /\ pc'[Listener] = "idle"
                      /\ UNCHANGED <<path, inode>>
       /\ (pc[Listener] # "idle" /\ pc'[Listener] # pc[Listener]) =>
             \A c \in Containers : path[c] = 0 => path'[c] = 0]_vars

\* parse_command has returned
Parsed == fnArgs # <<>> /\ fnArgs[1] = "parse_command" /\ fnRet # <<>>

\* what follows the last "/" of a spelling (all of it when there is none)
AfterLastSlash(pieces) ==
    LET slashes == {i \in 1..Len(pieces) : pieces[i] = "/"}
        from == IF slashes = {} THEN 1
                ELSE 1 + CHOOSE i \in slashes : \A j \in slashes : j <= i
    IN  IF from > Len(pieces) THEN "" ELSE pieces[from]

\* the namespace the --root value of the parsed global options stands for
RootNamespace(g) ==
    LET v == IF DictHas(g, "--root") THEN DictGet(g, "--root") ELSE ""
        pieces == Spelling(v)
    IN  IF DictHas(g, "--root") /\ pieces # <<>> /\ pieces[Len(pieces)] # "/"
        THEN AfterLastSlash(pieces)
        ELSE "default"

\* a token follows the global options of the parsed argv
HasSubcommand == ScanGlobal(fnArgs[2], 2, <<>>)[2] <= Len(fnArgs[2])

C24_NoContainerId ==
    (Parsed /\ HasSubcommand /\ ScanGlobal(fnArgs[2], 2, <<>>)[2] = Len(fnArgs[2])) =>
        /\ fnRet.subcommand = fnArgs[2][Len(fnArgs[2])]
        /\ fnRet.subcommand_options = <<>>
        /\ fnRet.container_id = ""

\* get_checkpoint_path has returned
Resolved == fnArgs # <<>> /\ fnArgs[1] = "get_checkpoint_path" /\ fnRet # <<>>

\* the variable has an entry in process.env of the config of the call
EnvVarPresent(name) ==
    fnArgs[2].exists /\ \E j \in 1..Len(fnArgs[2].env) : fnArgs[2].env[j][1] = name

\* the value of the entry that comes first
EnvVarValue(name) ==
    LET e == fnArgs[2].env
    IN  e[CHOOSE j \in 1..Len(e) :
              e[j][1] = name /\ \A k \in 1..(j - 1) : e[k][1] # name][2]

SharedFsPath(v) == v \o "/checkpoint/" \o fnArgs[4] \o "/" \o fnArgs[3]

HostPath(v) == v \o "/" \o fnArgs[4] \o "/" \o fnArgs[3]

\* C25 (as stated): get_checkpoint_path returns SHARED/checkpoint/ns/id when
\* the shared-filesystem variable is in the env, else HOST/ns/id when the
\* checkpoint-host variable is in the env, else DEFAULT/ns/id.
C25_FirstSetVariableWins ==
    Resolved =>
        fnRet[1] = IF EnvVarPresent("ARCH_SHAREDFS_HOST_PATH")
                   THEN SharedFsPath(EnvVarValue("ARCH_SHAREDFS_HOST_PATH"))
                   ELSE IF EnvVarPresent("ARCH_CHECKPOINT_HOST_PATH")
                   THEN HostPath(EnvVarValue("ARCH_CHECKPOINT_HOST_PATH"))
                   ELSE HostPath("/var/tmp/arch/checkpoint")

\* the first entry of the variable has a value that is not empty
EnvVarSet(name) == EnvVarPresent(name) /\ EnvVarValue(name) # ""

\* C25 (amended): the same priority order, a variable counting as set when
\* its first entry in process.env has a non-empty value; a variable whose
\* value is empty is passed over like one that is absent.
C25_FirstNonEmptyVariableWins ==
    Resolved =>
        fnRet[1] = IF EnvVarSet("ARCH_SHAREDFS_HOST_PATH")
                   THEN SharedFsPath(EnvVarValue("ARCH_SHAREDFS_HOST_PATH"))
                   ELSE IF EnvVarSet("ARCH_CHECKPOINT_HOST_PATH")
                   THEN HostPath(EnvVarValue("ARCH_CHECKPOINT_HOST_PATH"))
                   ELSE HostPath("/var/tmp/arch/checkpoint")

\* both variables are set and the shared one is listed last: it still wins
C25_Witness ==
    /\ Resolved
    /\ fnArgs[2].env = << <<"ARCH_CHECKPOINT_HOST_PATH", "/host">>,
                          <<"ARCH_SHAREDFS_HOST_PATH", "/shared">> >>
    /\ fnRet[1] = "/shared/checkpoint/k8s/tc"

\* validate_checkpoint has returned
Validated == fnArgs # <<>> /\ fnArgs[1] = "validate_checkpoint" /\ fnRet # <<>>

\* C26: validate_checkpoint returns true exactly when dump.log exists and its
\* last line that is not empty has the success phrase; empty lines after it
\* change nothing, and a missing or empty dump.log gives false.
C26_LastNonEmptyLineDecides ==
    Validated =>
        LET lines == fnArgs[2].lines
            filled == {i \in 1..Len(lines) : lines[i] # ""}
        IN  fnRet[1] = /\ fnArgs[2].exists
                       /\ filled # {}
                       /\ lines[CHOOSE i \in filled : \A j \in filled : j <= i] = "success"

\* the constructor has got the real runtime path, or has exited
RuntimeResolved == fnArgs # <<>> /\ fnArgs[1] = "_get_real_runc_cmd" /\ fnRet # <<>>

\* the path names an existing executable file
ExecutableFile(kind) == kind = "executable"

\* C27: the real runtime path is the value of the environment variable when
\* it names an existing executable file, else the value of the key in the
\* config file when that names an existing executable file (the first such
\* line), else the constructor exits with status 1 having parsed no command
\* and touched no flag record, config or checkpoint.
C27_RuntimePathResolution ==
    RuntimeResolved =>
        LET e == fnArgs[2]
            lines == fnArgs[3].lines
            good == {i \in 1..Len(lines) : lines[i].key /\ ExecutableFile(lines[i].kind)}
        IN  IF e.set /\ e.value # "" /\ ExecutableFile(e.kind)
            THEN fnRet[1] = e.value
            ELSE IF good # {}
            THEN fnRet[1] = lines[CHOOSE i \in good : \A j \in good : i <= j].value
            ELSE /\ fnRet[1] = SystemExit1
                 /\ \A s \in Shims : pc[s] = "idle" /\ trace[s] = <<>>
                 /\ \A c \in Containers : path[c] = 0

\* C28: a delete for an opted-in container that has no flag record when the
\* invocation starts removes neither the checkpoint directory nor the work
\* directory and hands the original delete to the real runtime. Stated for
\* the delete that is the first invocation of all: no record exists before
\* the first invocation, and none but this invocation can have made one.
C28_DeleteWithoutRecordKeepsAll ==
    [][\A s \in Shims :
          (/\ ninv = 1
           /\ pc[s] # "done" /\ pc'[s] = "done"
           /\ ParsedOf(s).subcommand = "delete" /\ OptIn(Cur(s))) =>
             /\ ckpt'[Cur(s)] = ckpt[Cur(s)]
             /\ work'[Cur(s)] = work[Cur(s)]
             /\ ~InTrace(s, "cleanup_checkpoint")'
             /\ HandedToRuntime(res'[s], Tail(argv[s]))]_vars

\* the restore child of invocation s was run and exited 0
RestoreChildSucceeded(s) == InTrace(s, "restore_child") /\ ~InTrace(s, "restore_failed")

\* C29: rollback of the upperdir happens only in a create invocation whose
\* restore did not succeed; an invocation whose restore child exited 0 never
\* rolls back, whatever happens to the write of skip_start after it.
C29_RollbackOnlyOnFailedRestore ==
    \A s \in Shims :
        InTrace(s, "rollback") =>
            /\ ParsedOf(s).subcommand = "create"
            /\ ~RestoreChildSucceeded(s)

\* C30: skip_resume is true in a record only if the real runtime's checkpoint
\* completed: when the checkpoint command handed to the real runtime could
\* not even be executed, the record has neither skip_resume nor
\* keep_resources true. Stated for the checkpoint that is the first
\* invocation of all, so that no earlier checkpoint can have set the flags.
C30_FlagsOnlyAfterRuntimeCheckpoint ==
    [][\A s \in Shims :
          (/\ ninv = 1
           /\ pc[s] # "done" /\ pc'[s] = "done"
           /\ ParsedOf(s).subcommand = "checkpoint" /\ OptIn(Cur(s))
           /\ res'[s].kind = "execfail") =>
             ~(/\ ValidRecord(Cur(s))'
               /\ \/ RecordOf(Cur(s)).skip_resume'
                  \/ RecordOf(Cur(s)).keep_resources')]_vars

\* the steps invocation s adds to its trace in this step
NewSteps(s) == SubSeq(trace'[s], Len(trace[s]) + 1, Len(trace'[s]))

\* C31: in a create invocation the restore child is spawned only after the
\* paths resolved, add_bind_mount, validate and restore_files succeeded, in
\* this order; when one of them fails no later step runs, the record is not
\* written (skip_start stays as it was) and the original create is handed to
\* the real runtime.
C31_RestoreStepsInOrder ==
    [][\A s \in Shims :
          (pc[s] = "create_work" /\ pc'[s] # "create_work") =>
             LET c == Cur(s)
             IN  IF child'[s] # <<>>
                 THEN /\ upper[c] # "nomount"
                      /\ ckpt[c].dir /\ ckpt[c].dump = "ok" /\ ckpt[c].tar
                      /\ SubSeq(NewSteps(s), 1, 4) =
                             <<"add_bind_mount", "validate", "restore_files", "restore_child">>
                 ELSE /\ NewSteps(s) \in
                             { <<"no_paths">>,
                               <<"add_bind_mount">>,
                               <<"add_bind_mount", "validate">>,
                               <<"add_bind_mount", "validate", "restore_files", "rollback">> }
                      /\ pc'[s] = "done"
                      /\ HandedToRuntime(res'[s], Tail(argv[s]))
                      /\ UNCHANGED <<path, inode>>]_vars

\* a create found its checkpoint invalid and fell back to the original create
C31_Witness ==
    \E s \in Shims :
        /\ Ended(s, "create")
        /\ trace[s] = <<"add_bind_mount", "validate">>
        /\ HandedToRuntime(res[s], Tail(argv[s]))

\* the tokens of a command
Tokens(cmd) == {cmd[i] : i \in 1..Len(cmd)}

\* token tok is in cmd followed by value
Carries(cmd, tok, value) ==
    \E i \in 1..(Len(cmd) - 1) : cmd[i] = tok /\ cmd[i + 1] = value

\* a builder has returned its command
Built(name) == fnArgs # <<>> /\ fnArgs[1] = name /\ fnRet # <<>>

\* C32: the command an intercepted checkpoint hands to the real runtime is
\* the original global options, the word checkpoint, the original subcommand
\* options without --work-path and --leave-running, and the container id
\* last; it carries --image-path with the resolved checkpoint path and not
\* the image path of the caller.
C32_CheckpointCommand ==
    Built("_build_checkpoint_command") =>
        LET cmd == fnRet[1]
            g == fnArgs[2]
            staying == Tokens(Flatten(fnArgs[3])) \ {"--work-path", "/w", "--leave-running", "/old"}
        IN  /\ SubSeq(cmd, 1, Len(g) + 1) = Append(g, "checkpoint")
            /\ cmd[Len(cmd)] = "tc"
            /\ Tokens(SubSeq(cmd, Len(g) + 2, Len(cmd) - 1)) =
                   staying \cup {"--image-path", BuilderCheckpointPath}
            /\ Carries(cmd, "--image-path", BuilderCheckpointPath)

\* C33: the restore command is the real runtime path, the original global
\* options, the word restore, the original subcommand options, --detach
\* once, --image-path with the resolved checkpoint path and the container id
\* last; a boolean flag is one token, so no argument is the empty string.
C33_RestoreCommand ==
    Built("_build_restore_command") =>
        LET cmd == fnRet[1]
            g == fnArgs[2]
            n == Len(cmd)
        IN  /\ SubSeq(cmd, 1, Len(g) + 2) = <<original_runc_cmd>> \o g \o <<"restore">>
            /\ SubSeq(cmd, n - 2, n) = <<"--image-path", BuilderCheckpointPath, "tc">>
            /\ Cardinality({i \in 1..n : cmd[i] = "--detach"}) = 1
            /\ Tokens(SubSeq(cmd, Len(g) + 3, n - 3)) =
                   Tokens(Flatten(fnArgs[3])) \cup {"--detach"}
            /\ "" \notin Tokens(cmd)

\* C34: when add_bind_mount returns false the OCI config of the container is
\* what it was before the call: no mount entry added, process.cwd unchanged.
C34_FailedBindLeavesConfig ==
    [][\A s \in Shims :
          (pc[s] = "create_work" /\ NewSteps(s) = <<"add_bind_mount">>) =>
             /\ config'[Cur(s)] = config[Cur(s)]
             /\ mounts'[Cur(s)] = mounts[Cur(s)]
             /\ cwd'[Cur(s)] = cwd[Cur(s)]]_vars

\* C35: the OCI config of a container (its file, mounts[] and process.cwd) is
\* written only by the create handler of an invocation for that container,
\* which is opted in; no step of a start, checkpoint, resume or delete, no
\* pass-through and no step of the listener changes it.
C35_ConfigWrittenOnlyByCreate ==
    [][\A c \in Containers :
          (config'[c] # config[c] \/ mounts'[c] # mounts[c] \/ cwd'[c] # cwd[c]) =>
             \E s \in Shims :
                 /\ pc[s] = "create_work" /\ pc'[s] # "create_work"
                 /\ ParsedOf(s).subcommand = "create"
                 /\ Cur(s) = c /\ OptIn(c)]_vars

\* a create has added the bind mount and a later invocation has ended
C35_Witness ==
    \E s \in Shims :
        /\ pc[s] = "done" /\ ParsedOf(s).subcommand # "create"
        /\ Cur(s) \in Containers
        /\ mounts[Cur(s)] # <<>> /\ cwd[Cur(s)] = "/tmp"

\* C36: a flag-store operation for one (namespace, container_id) pair leaves
\* the record of every other pair alone: clear_flag for a pair removes the
\* record of no other pair, whatever underscores the names contain.
C36_RecordsIsolated ==
    [][(fnArgs' # <<>> /\ fnArgs'[1] = "clear_flag") =>
          \A q \in created : q # <<fnArgs'[2], fnArgs'[3]>> => q \in created']_vars

\* ------------------------------------------------------------------------
\* Several invocations and the listener on one record, with the locks
\* spelled out. Two shim processes and the event listener use the record of
\* one opted-in container. flock is a lock on the open file: fh[q] is
\* "closed", "open" (no lock held), "sh" (LOCK_SH held) or "ex" (LOCK_EX
\* held). flock(LOCK_SH) waits while another open file holds LOCK_EX,
\* flock(LOCK_EX) while another holds any lock. The record file is one inode
\* (number 1): a file made after clear_flag is taken to be the same inode, so
\* the locks of the old and of the new file collide, which only adds waiting.
\* ------------------------------------------------------------------------

LiveShims == {"shim1", "shim2"}

LiveProcs == LiveShims \cup {Listener}

LiveSubcommands == {"create", "start", "resume", "checkpoint", "delete"}

\* the container all processes of this study work on
LiveContainer == <<"default", "tc">>

LiveRecordInit == { DocFile(SetField(_create_initial_flag, "skip_start", b)) : b \in BOOLEAN }

liveRest == <<config, mounts, cwd, ckpt, upper, work, trace, child, kept, ovl,
              fnArgs, fnRet, dirents, created>>

\* no flag-store call in progress (the listener's values are exit codes)
LiveNoOp(q) == IF q = Listener THEN [NoOp EXCEPT !.value = None] ELSE NoOp

InitLive ==
    /\ config = [c \in Containers |-> NoConfig]
    /\ mounts = [c \in Containers |-> <<>>]
    /\ cwd = [c \in Containers |-> "/"]
    /\ ckpt = [c \in Containers |-> [dir |-> FALSE, dump |-> "none", tar |-> FALSE]]
    /\ upper = [c \in Containers |-> "nomount"]
    /\ work = [c \in Containers |-> FALSE]
    /\ \E present \in BOOLEAN, content \in LiveRecordInit :
          /\ path = [c \in Containers |-> IF present THEN 1 ELSE 0]
          /\ inode = [i \in {1} |-> IF present THEN content ELSE EmptyFile]
    /\ fh = [q \in LiveProcs |-> "closed"]
    /\ pc = [q \in LiveProcs |-> "idle"]
    /\ op = [q \in LiveProcs |-> LiveNoOp(q)]
    /\ rd = [q \in LiveProcs |-> FALSE]
    /\ wbuf = [q \in LiveProcs |-> _create_initial_flag]
    /\ argv = [s \in LiveShims |-> <<>>]
    /\ trace = [s \in LiveShims |-> <<>>]
    /\ child = [s \in LiveShims |-> <<>>]
    /\ res = [s \in LiveShims |-> NoResult]
    /\ levt = NoEvent
    /\ ninv = 0
    /\ nev = 0
    /\ kept = [c \in Containers |-> FALSE]
    /\ ovl = FALSE
    /\ FnAtRest

LiveRecordExists == path[LiveContainer] # 0

\* another open file holds a lock that flock(mode) has to wait for
LockBusy(q, mode) ==
    \E r \in LiveProcs \ {q} :
        IF mode = "sh" THEN fh[r] = "ex" ELSE fh[r] \in {"sh", "ex"}

\* the frame of a step of process q that touches neither file nor counters
LiveFrame == UNCHANGED <<liveRest, ninv, nev>>

\* the flag-store call of q returns normally
LiveReturns(q) ==
    /\ op' = [op EXCEPT ![q] = LiveNoOp(q)]
    /\ IF q \in LiveShims
       THEN pc' = [pc EXCEPT ![q] = op[q].k] /\ UNCHANGED levt
       ELSE pc' = [pc EXCEPT ![q] = "idle"] /\ levt' = NoEvent

\* the flag-store call of q raises: every handler of the shim ends in
\* _execute_command with the original arguments (the except clauses of
\* intercept_command, _handle_create_command and _handle_checkpoint_command);
\* _process_event of the listener logs the exception
LiveRaises(q) ==
    /\ op' = [op EXCEPT ![q] = LiveNoOp(q)]
    /\ wbuf' = [wbuf EXCEPT ![q] = _create_initial_flag]
    /\ IF q \in LiveShims
       THEN pc' = [pc EXCEPT ![q] = "exec"] /\ UNCHANGED levt
       ELSE pc' = [pc EXCEPT ![q] = "idle"] /\ levt' = NoEvent

LiveCall(s, kind, field, value, k, first) ==
    /\ op' = [op EXCEPT ![s] = [kind |-> kind, field |-> field, value |-> value,
                                k |-> k, kfail |-> "exec"]]
    /\ pc' = [pc EXCEPT ![s] = first]

\* intercept_command of an invocation for the opted-in container
LiveInvoke(s, sub) ==
    /\ pc[s] = "idle"
    /\ ninv < MaxInvocations
    /\ ninv' = ninv + 1
    /\ argv' = [argv EXCEPT ![s] = <<"runc", sub, "tc">>]
    /\ pc' = [pc EXCEPT ![s] = "ensure"]
    /\ res' = [res EXCEPT ![s] = Running]
    /\ UNCHANGED <<fsVars, callVars, levt, nev, liveRest>>

\* has_flag, and create_flag when there is no record
LiveEnsure(s) ==
    /\ pc[s] = "ensure"
    /\ IF LiveRecordExists
       THEN pc' = [pc EXCEPT ![s] = "dispatch"] /\ UNCHANGED <<op, wbuf>>
       ELSE /\ LiveCall(s, "create", "none", FALSE, "dispatch", "w_open")
            /\ wbuf' = [wbuf EXCEPT ![s] = _create_initial_flag]
    /\ UNCHANGED <<fsVars, rd, argv, res, levt>>
    /\ LiveFrame

\* the handler of the subcommand up to its first flag-store call; worked is
\* the restore of a create or the save of a checkpoint having succeeded
LiveDispatch(s, worked) ==
    /\ pc[s] = "dispatch"
    /\ LET sub == argv[s][2]
       IN  IF sub = "create"
           THEN IF worked
                THEN LiveCall(s, "set", "skip_start", TRUE, "ret0", "has")
                ELSE pc' = [pc EXCEPT ![s] = "exec"] /\ UNCHANGED op
           ELSE IF sub = "start"
           THEN LiveCall(s, "get", "skip_start", FALSE, "start_got", "r_open")
           ELSE IF sub = "resume"
           THEN LiveCall(s, "get", "skip_resume", FALSE, "resume_got", "r_open")
           ELSE IF sub = "checkpoint"
           THEN IF worked
                THEN LiveCall(s, "set", "skip_resume", TRUE, "ckpt_set2", "has")
                ELSE pc' = [pc EXCEPT ![s] = "exec"] /\ UNCHANGED op
           ELSE IF LiveRecordExists
                THEN LiveCall(s, "get", "keep_resources", FALSE, "delete_got", "r_open")
                ELSE pc' = [pc EXCEPT ![s] = "exec"] /\ UNCHANGED op
    /\ UNCHANGED <<fsVars, rd, wbuf, argv, res, levt>>
    /\ LiveFrame

\* _handle_start_command and _handle_resume_command after the getter returned
LiveLatchGot(s) ==
    /\ pc[s] \in {"start_got", "resume_got"}
    /\ IF rd[s]
       THEN LiveCall(s, "set", IF pc[s] = "start_got" THEN "skip_start" ELSE "skip_resume",
                     FALSE, "ret0", "has")
       ELSE pc' = [pc EXCEPT ![s] = "exec"] /\ UNCHANGED op
    /\ rd' = [rd EXCEPT ![s] = FALSE]
    /\ UNCHANGED <<fsVars, wbuf, argv, res, levt>>
    /\ LiveFrame

\* set_keep_resources(True) of _handle_checkpoint_command
LiveCheckpointSetKeep(s) ==
    /\ pc[s] = "ckpt_set2"
    /\ LiveCall(s, "set", "keep_resources", TRUE, "exec", "has")
    /\ UNCHANGED <<fsVars, rd, wbuf, argv, res, levt>>
    /\ LiveFrame

\* clear_flag of _handle_delete_command: os.remove, FileNotFoundError passed over
LiveDeleteGot(s) ==
    /\ pc[s] = "delete_got"
    /\ path' = [path EXCEPT ![LiveContainer] = 0]
    /\ pc' = [pc EXCEPT ![s] = "exec"]
    /\ rd' = [rd EXCEPT ![s] = FALSE]
    /\ UNCHANGED <<inode, fh, op, wbuf, argv, res, levt>>
    /\ LiveFrame

\* return 0
LiveReturnZero(s) ==
    /\ pc[s] = "ret0"
    /\ pc' = [pc EXCEPT ![s] = "done"]
    /\ res' = [res EXCEPT ![s] = [kind |-> "ret", status |-> 0, cmd |-> <<>>]]
    /\ UNCHANGED <<fsVars, callVars, argv, levt>>
    /\ LiveFrame

\* _execute_command: os.execvp replaces the process (ok) or raises and 1 is
\* returned
LiveExecute(s, ok) ==
    /\ pc[s] = "exec"
    /\ pc' = [pc EXCEPT ![s] = "done"]
    /\ res' = [res EXCEPT ![s] = [kind |-> IF ok THEN "exec" ELSE "execfail",
                                  status |-> IF ok THEN None ELSE 1,
                                  cmd |-> Tail(argv[s])]]
    /\ UNCHANGED <<fsVars, callVars, argv, levt>>
    /\ LiveFrame

\* the process of the invocation is gone, and with it its open files
LiveExit(s) ==
    /\ pc[s] = "done"
    /\ pc' = [pc EXCEPT ![s] = "idle"]
    /\ fh' = [fh EXCEPT ![s] = "closed"]
    /\ argv' = [argv EXCEPT ![s] = <<>>]
    /\ res' = [res EXCEPT ![s] = NoResult]
    /\ op' = [op EXCEPT ![s] = NoOp]
    /\ rd' = [rd EXCEPT ![s] = FALSE]
    /\ wbuf' = [wbuf EXCEPT ![s] = _create_initial_flag]
    /\ UNCHANGED <<path, inode, levt>>
    /\ LiveFrame

\* a /tasks/exit event: has_state, then set_exit_code
LiveExitEvent(code) ==
    /\ pc[Listener] = "idle"
    /\ nev < MaxEvents
    /\ nev' = nev + 1
    /\ levt' = LiveContainer
    /\ pc' = [pc EXCEPT ![Listener] = "has"]
    /\ op' = [op EXCEPT ![Listener] =
                [kind |-> "lset", field |-> "exit_code", value |-> code,
                 k |-> "idle", kfail |-> "idle"]]
    /\ UNCHANGED <<fsVars, rd, wbuf, argv, res, ninv, liveRest>>

\* _set_flag / set_exit_code: the has_flag / has_state test
LiveHas(q) ==
    /\ pc[q] = "has"
    /\ IF LiveRecordExists
       THEN pc' = [pc EXCEPT ![q] = "r_open"] /\ UNCHANGED <<op, levt>>
       ELSE LiveReturns(q)
    /\ UNCHANGED <<fsVars, rd, wbuf, argv, res>>
    /\ LiveFrame

\* The fields of the record whose value is followed here. The other fields
\* are in the record but their value is left open: a getter of one of them
\* returns either value (untracked), a setter writes the record back as read.
LiveTracked == {"skip_start"}

\* what follows _read_flag returning (good: a valid record was read)
LiveReadDone(q, good, doc, untracked) ==
    IF op[q].kind = "get"
    THEN /\ rd' = [rd EXCEPT ![q] = IF ~good THEN op[q].value
                                    ELSE IF op[q].field \in LiveTracked
                                         THEN doc[op[q].field]
                                         ELSE untracked]
         /\ LiveReturns(q)
         /\ UNCHANGED wbuf
    ELSE IF good
    THEN /\ wbuf' = [wbuf EXCEPT ![q] = IF op[q].field \in LiveTracked
                                        THEN SetField(doc, op[q].field, op[q].value)
                                        ELSE doc]
         /\ pc' = [pc EXCEPT ![q] = "w_open"]
         /\ UNCHANGED <<op, rd, levt>>
    ELSE /\ LiveReturns(q)
         /\ UNCHANGED <<rd, wbuf>>

\* _read_flag: open(flag_file, 'r'); FileNotFoundError makes it return None
LiveROpen(q) ==
    /\ pc[q] = "r_open"
    /\ IF LiveRecordExists
       THEN /\ fh' = [fh EXCEPT ![q] = "open"]
            /\ pc' = [pc EXCEPT ![q] = "r_lock"]
            /\ UNCHANGED <<callVars, levt>>
       ELSE /\ LiveReadDone(q, FALSE, _create_initial_flag, FALSE)
            /\ UNCHANGED fh
    /\ UNCHANGED <<path, inode, argv, res>>
    /\ LiveFrame

\* _read_flag: flock(LOCK_SH) returns once no other open file holds LOCK_EX
LiveRLock(q) ==
    /\ pc[q] = "r_lock"
    /\ ~LockBusy(q, "sh")
    /\ fh' = [fh EXCEPT ![q] = "sh"]
    /\ pc' = [pc EXCEPT ![q] = "r_load"]
    /\ UNCHANGED <<path, inode, callVars, argv, res, levt>>
    /\ LiveFrame

\* _read_flag: flock(LOCK_SH) raises IOError: None is returned, the finally
\* clause unlocks and the with block closes the file
LiveRLockFails(q) ==
    /\ pc[q] = "r_lock"
    /\ fh' = [fh EXCEPT ![q] = "closed"]
    /\ LiveReadDone(q, FALSE, _create_initial_flag, FALSE)
    /\ UNCHANGED <<path, inode, argv, res>>
    /\ LiveFrame

\* mutant: the file object is not closed and the lock not released when
\* json.load or the validation fails
LiveRLoad_keeping_lock(q, untracked) ==
    /\ pc[q] = "r_load"
    /\ LET content == inode[1]
       IN  /\ fh' = [fh EXCEPT ![q] = IF Readable(content) THEN "closed" ELSE @]
           /\ LiveReadDone(q, Readable(content), content.doc, untracked)
    /\ UNCHANGED <<path, inode, argv, res>>
    /\ LiveFrame

\* _read_flag: json.load and _validate_flag under the shared lock; the
\* finally clause unlocks and the with block closes the file, also when
\* json.load raises JSONDecodeError (None is returned then)
LiveRLoad(q, untracked) ==
    /\ pc[q] = "r_load"
    /\ LET content == inode[1]
       IN  /\ fh' = [fh EXCEPT ![q] = "closed"]
           /\ LiveReadDone(q, Readable(content), content.doc, untracked)
    /\ UNCHANGED <<path, inode, argv, res>>
    /\ LiveFrame

\* _write_flag: open(flag_file, 'w') creates or truncates the file before
\* any lock is asked for; ok = FALSE is the open raising
LiveWOpen(q, ok) ==
    /\ pc[q] = "w_open"
    /\ IF ok
       THEN /\ path' = [path EXCEPT ![LiveContainer] = 1]
            /\ inode' = [inode EXCEPT ![1] = EmptyFile]
            /\ fh' = [fh EXCEPT ![q] = "open"]
            /\ pc' = [pc EXCEPT ![q] = "w_lock"]
            /\ UNCHANGED <<op, wbuf, levt>>
       ELSE /\ LiveRaises(q)
            /\ UNCHANGED fsVars
    /\ UNCHANGED <<rd, argv, res>>
    /\ LiveFrame

\* _write_flag: flock(LOCK_EX) returns once no other open file holds a lock
LiveWLock(q) ==
    /\ pc[q] = "w_lock"
    /\ ~LockBusy(q, "ex")
    /\ fh' = [fh EXCEPT ![q] = "ex"]
    /\ pc' = [pc EXCEPT ![q] = "w_dump"]
    /\ UNCHANGED <<path, inode, callVars, argv, res, levt>>
    /\ LiveFrame

\* _write_flag: flock(LOCK_EX) raises IOError: the finally clause unlocks,
\* the with block closes the truncated file and the error is raised again
LiveWLockFails(q) ==
    /\ pc[q] = "w_lock"
    /\ fh' = [fh EXCEPT ![q] = "closed"]
    /\ LiveRaises(q)
    /\ UNCHANGED <<path, inode, rd, argv, res>>
    /\ LiveFrame

\* _write_flag: json.dump into the buffer of the file object, then
\* flock(LOCK_UN) in the finally clause
LiveWDump(q) ==
    /\ pc[q] = "w_dump"
    /\ fh' = [fh EXCEPT ![q] = "open"]
    /\ pc' = [pc EXCEPT ![q] = "w_close"]
    /\ UNCHANGED <<path, inode, callVars, argv, res, levt>>
    /\ LiveFrame

\* _write_flag: the with block closes the file, which writes the buffer
LiveWClose(q) ==
    /\ pc[q] = "w_close"
    /\ inode' = [inode EXCEPT ![1] = Overwrite(@, wbuf[q])]
    /\ fh' = [fh EXCEPT ![q] = "closed"]
    /\ LiveReturns(q)
    /\ wbuf' = [wbuf EXCEPT ![q] = _create_initial_flag]
    /\ UNCHANGED <<path, rd, argv, res>>
    /\ LiveFrame

\* the steps of its handler that a scheduled shim takes by itself
LiveHandlerProgress(s) ==
    \/ LiveEnsure(s)
    \/ \E worked \in BOOLEAN : LiveDispatch(s, worked)
    \/ LiveLatchGot(s)
    \/ LiveCheckpointSetKeep(s)
    \/ LiveDeleteGot(s)
    \/ LiveReturnZero(s)
    \/ \E ok \in BOOLEAN : LiveExecute(s, ok)

\* the steps of a flag-store call that a scheduled process takes by itself;
\* in LiveRLock and LiveWLock it goes on only when the lock is free
LiveStoreProgress(q) ==
    \/ LiveHas(q)
    \/ LiveROpen(q)
    \/ LiveRLock(q)
    \/ \E untracked \in BOOLEAN : LiveRLoad(q, untracked)
    \/ \E ok \in BOOLEAN : LiveWOpen(q, ok)
    \/ LiveWLock(q)
    \/ LiveWDump(q)
    \/ LiveWClose(q)

\* what happens to a process from outside: a lock call fails
LiveLockFailure(q) ==
    \/ LiveRLockFails(q)
    \/ LiveWLockFails(q)

LiveShimStep(s) ==
    \/ \E sub \in LiveSubcommands : LiveInvoke(s, sub)
    \/ LiveExit(s)
    \/ LiveHandlerProgress(s)
    \/ LiveStoreProgress(s)
    \/ LiveLockFailure(s)

LiveListenerStep ==
    \/ \E code \in ExitStatuses : LiveExitEvent(code)
    \/ LiveStoreProgress(Listener)
    \/ LiveLockFailure(Listener)

\* the shim whose invocations run beside the listener
LiveBesideListener == {"shim1"}

\* invocations of one shim at a time and the event listener
NextLive ==
    \/ \E s \in LiveBesideListener : LiveShimStep(s)
    \/ LiveListenerStep

\* every process that can take a step of its own is scheduled in the end;
\* nothing makes an invocation or an event arrive or a lock call fail
LiveFairness ==
    /\ \A s \in LiveBesideListener : WF_vars(LiveHandlerProgress(s) \/ LiveStoreProgress(s))
    /\ WF_vars(LiveStoreProgress(Listener))

SpecLive == InitLive /\ [][NextLive]_vars /\ LiveFairness

\* two shim invocations at a time, the listener at rest
NextOverlap == \E s \in LiveShims : LiveShimStep(s)

SpecOverlap == InitLive /\ [][NextOverlap]_vars

\* C37: every shim invocation runs to completion: once started it ends by
\* returning a status or by handing control to the real runtime, with no
\* lock left held, and an event the listener took up is dealt with,
\* whatever the other processes do on the same record.
C37_InvocationsComplete ==
    /\ \A s \in LiveShims :
          (pc[s] \notin {"idle", "done"}) ~>
              (pc[s] = "done" /\ fh[s] = "closed"
                 /\ res[s].kind \in {"ret", "exec", "execfail"})
    /\ (pc[Listener] # "idle") ~> (pc[Listener] = "idle" /\ fh[Listener] = "closed")

\* a process waits in flock for a lock that another process holds
C37_Witness ==
    \E q \in LiveProcs :
        \/ pc[q] = "r_lock" /\ LockBusy(q, "sh")
        \/ pc[q] = "w_lock" /\ LockBusy(q, "ex")

\* the invocation of s is a start that found the latch set, has cleared it
\* (or tried to) and is about to return 0
ReturnsThroughLatch(s) ==
    /\ argv[s] # <<>> /\ argv[s][2] = "start"
    /\ pc[s] = "ret0"

\* C38: the skip_start latch is consumed at most once per successful
\* restore: of two start invocations for the container that are in progress
\* at the same time, with no create since the record was written, at most one
\* returns 0 through the latch.
C38_LatchConsumedOnce ==
    ~(ninv = 2 /\ \A s \in LiveShims : ReturnsThroughLatch(s))

\* C39: get_upperdir(container_id) returns the upperdir of the overlay mount
\* of the container whose id is exactly container_id: whatever it returns is
\* the upperdir of an overlay line of that very container, never that of a
\* container whose id merely holds container_id as a part.
C39_UpperdirOfExactContainer ==
    (fnArgs # <<>> /\ fnArgs[1] = "get_upperdir" /\ fnRet # <<>> /\ fnRet[1] # "") =>
        \E k \in 1..Len(fnArgs[2]) :
            /\ fnArgs[2][k].fstype = "overlay"
            /\ fnArgs[2][k].id = fnArgs[3]
            /\ fnArgs[2][k].upperdir = fnRet[1]

\* the record of c is a complete document with keep_resources true
KeepsResources(c) == ValidRecord(c) /\ RecordOf(c).keep_resources

\* C40: once keep_resources is true in the record of a container it stays
\* true until the record is deleted: no step of a create, start, resume or
\* checkpoint invocation and no update of the event listener takes the
\* record from a document with keep_resources true to a document with
\* keep_resources false.
C40_KeepResourcesStays ==
    [][\A c \in Containers :
          (KeepsResources(c) /\ path'[c] # 0 /\ inode'[path'[c]].kind = "doc") =>
              inode'[path'[c]].doc.keep_resources]_vars

====
